---- MODULE Spec2Model ----
(***************************************************************************)
(* Model of the RTPI-PEN self-healing service (services/rtpi-healer):      *)
(* the ContainerFailureTracker (failure ledger and restart backoff), the   *)
(* monitoring tick of RTHealerService with its restart gate and pre-start  *)
(* validation, and the SysReptor configuration validation / repair pass    *)
(* that the pre-start validation runs.                                     *)
(*                                                                         *)
(* Time is in seconds.  datetime.now() is the variable now.                *)
(***************************************************************************)
EXTENDS Integers, Sequences, FiniteSets, TLC

(***************************************************************************)
(* Program constants                                                       *)
(***************************************************************************)
\* timedelta(hours=1), healer.py:57
HourSeconds == 3600
\* min(300, backoff * 30), healer.py:71
MaxWaitSeconds == 300
\* min(300, backoff * 30), healer.py:71
BackoffUnitSeconds == 30
\* min(8, multiplier * 2), healer.py:80
MaxMultiplier == 8
\* time.sleep(10), healer.py:458
StabilizeSeconds == 10
\* restart_count > 3, healer.py:491
RestartLoopThreshold == 3
\* len(secret_key) < 50, config_validator.py:326
MinSecretKeyLen == 50

(***************************************************************************)
(* Bounds of the model                                                     *)
(***************************************************************************)
\* number of clock advances in one behaviour
MaxAdvances == 2
\* number of record_failure calls (all keys together) in one behaviour
MaxRecords == 3
\* number of record_restart calls (all containers together) in one behaviour
MaxRestarts == 5
\* number of failures the monitoring loop observes in one behaviour
MaxFlagged == 3
\* number of file writes after which no further repair is started
MaxWrites == 2

\* the amounts by which the controllable clock advances, in the ledger
\* checks (around one hour) and in the backoff checks (around min_wait)
LedgerClockSteps == {1, 3599, 3600}
BackoffClockSteps == {1, 59, 120, 240}

\* the amounts by which the clock advances between two runs of the
\* monitoring job (scheduled every 30 seconds, healer.py:652)
ServiceClockSteps == {50, 230}

\* containers known to the tracker and failure types the service records
TrackedContainers == {"sysreptor-app", "rtpi-proxy"}
FailureTypes == {"restart_loop", "unhealthy"}

\* docker_client.containers.list(all=True): the supervisor itself, a
\* container with a healing strategy and pre-start validation, and a
\* container with neither
ContainerList == <<"rtpi-healer", "sysreptor-app", "rtpi-proxy">>
AllContainers == TrackedContainers \cup {ContainerList[i] : i \in DOMAIN ContainerList}

\* self.healing_strategies, healer.py:98-101
healing_strategies == {"sysreptor-app", "rtpi-orchestrator"}

VARIABLES
    now,              \* datetime.now()
    advances,         \* how often the clock has advanced
    failure_tracker,  \* RTHealerService.failure_tracker (ContainerFailureTracker)
    healing_actions,  \* RTHealerService.healing_actions
    cfg,              \* the file /opt/rtpi-pen/configs/rtpi-sysreptor/app.env
    queue,            \* containers the running _monitor_containers loop has yet to visit
    ticked,           \* the monitoring job has run since the clock last advanced
    recorded,         \* history: every record_failure call, key -> times
    restarted,        \* history: number of record_restart calls per container
    service,          \* RTHealerService.run: running, last_check_time, the schedule
    last              \* the operation that ran last, with its result

vars == <<now, advances, failure_tracker, healing_actions, cfg, queue, ticked,
          recorded, restarted, service, last>>

serviceVars == <<healing_actions, cfg, queue, ticked, service>>

(***************************************************************************)
(* Python dicts: functions with a growing domain                           *)
(***************************************************************************)
EmptyDict == [x \in {} |-> 0]

DictGet(d, k, default) == IF k \in DOMAIN d THEN d[k] ELSE default

DictPut(d, k, v) == [x \in (DOMAIN d) \cup {k} |-> IF x = k THEN v ELSE d[x]]

\* the element of a one-element set. Only({ e(x) : x \in {v} }) is e with x
\* a local variable of the code: v is computed once, where it is assigned
Only(S) == CHOOSE x \in S : TRUE

Min(a, b) == IF a <= b THEN a ELSE b

SeqSum(f, S) ==
    LET RECURSIVE Sum(_)
        Sum(R) == IF R = {} THEN 0
                  ELSE LET x == CHOOSE y \in R : TRUE IN f[x] + Sum(R \ {x})
    IN Sum(S)

(***************************************************************************)
(* ContainerFailureTracker                                                 *)
(***************************************************************************)
\* key = f"{container_name}:{failure_type}"
FailureKey(container_name, failure_type) == <<container_name, failure_type>>

\* ContainerFailureTracker.__init__
NewTracker ==
    [failures            |-> EmptyDict,
     restart_counts      |-> EmptyDict,
     last_restart_time   |-> EmptyDict,
     backoff_multipliers |-> EmptyDict]

\* [f for f in self.failures[key] if f > hour_ago]
KeepNewer(events, hour_ago) ==
    SelectSeq(events, LAMBDA f : f > hour_ago)

\* record_failure with a one-minute window (timedelta(minutes=1))
record_failure_short_window(T, container_name, failure_type, t) ==
    LET key      == FailureKey(container_name, failure_type)
        appended == Append(DictGet(T.failures, key, <<>>), t)
        hour_ago == t - 60
    IN [T EXCEPT !.failures = DictPut(T.failures, key, KeepNewer(appended, hour_ago))]

\* ContainerFailureTracker.record_failure at time t
record_failure(T, container_name, failure_type, t) ==
    LET key      == FailureKey(container_name, failure_type)
        appended == Append(DictGet(T.failures, key, <<>>), t)
        hour_ago == t - HourSeconds
    IN [T EXCEPT !.failures = DictPut(T.failures, key, KeepNewer(appended, hour_ago))]

\* ContainerFailureTracker.get_failure_count
get_failure_count(T, container_name, failure_type) ==
    Len(DictGet(T.failures, FailureKey(container_name, failure_type), <<>>))

\* min_wait with max in place of min
min_wait_max(backoff) ==
    IF MaxWaitSeconds >= backoff * BackoffUnitSeconds
    THEN MaxWaitSeconds ELSE backoff * BackoffUnitSeconds

\* min_wait = min(300, backoff * 30)
min_wait(backoff) == Min(MaxWaitSeconds, backoff * BackoffUnitSeconds)

\* should_restart with > in place of >=
should_restart_strict(T, container_name, t) ==
    IF container_name \notin DOMAIN T.last_restart_time
    THEN TRUE
    ELSE LET backoff         == DictGet(T.backoff_multipliers, container_name, 1)
             time_since_last == t - T.last_restart_time[container_name]
         IN time_since_last > min_wait(backoff)

\* ContainerFailureTracker.should_restart at time t
should_restart(T, container_name, t) ==
    IF container_name \notin DOMAIN T.last_restart_time
    THEN TRUE
    ELSE LET backoff         == DictGet(T.backoff_multipliers, container_name, 1)
             time_since_last == t - T.last_restart_time[container_name]
         IN time_since_last >= min_wait(backoff)

\* record_restart without the cap on the multiplier
record_restart_uncapped(T, container_name, t) ==
    [T EXCEPT
       !.last_restart_time   = DictPut(@, container_name, t),
       !.restart_counts      = DictPut(@, container_name,
                                   DictGet(@, container_name, 0) + 1),
       !.backoff_multipliers = DictPut(@, container_name,
                                   DictGet(@, container_name, 1) * 2)]

\* record_restart doubling the multiplier of every container it knows
record_restart_global(T, container_name, t) ==
    [T EXCEPT
       !.last_restart_time   = DictPut(@, container_name, t),
       !.restart_counts      = DictPut(@, container_name,
                                   DictGet(@, container_name, 0) + 1),
       !.backoff_multipliers =
           [x \in (DOMAIN @) \cup {container_name} |->
               Min(MaxMultiplier, DictGet(@, x, 1) * 2)]]

\* ContainerFailureTracker.record_restart at time t
record_restart(T, container_name, t) ==
    [T EXCEPT
       !.last_restart_time   = DictPut(@, container_name, t),
       !.restart_counts      = DictPut(@, container_name,
                                   DictGet(@, container_name, 0) + 1),
       !.backoff_multipliers = DictPut(@, container_name,
                                   Min(MaxMultiplier, DictGet(@, container_name, 1) * 2))]

(***************************************************************************)
(* SysReptor configuration file (app.env) and its validation               *)
(*                                                                         *)
(* The file is described by what the validator reads from it: for each     *)
(* required variable whether its line is missing, has a blank value or is  *)
(* set; the length of SECRET_KEY; the shape of ENCRYPTION_KEYS; whether    *)
(* the port / index variables parse as integers.                           *)
(***************************************************************************)
\* required_vars, config_validator.py:316-319
RequiredVars ==
    {"SECRET_KEY", "DATABASE_HOST", "DATABASE_NAME", "DATABASE_USER",
     "DATABASE_PASSWORD", "REDIS_HOST", "REDIS_PASSWORD"}

DatabaseVars == {"DATABASE_HOST", "DATABASE_NAME", "DATABASE_USER", "DATABASE_PASSWORD"}
RedisVars == {"REDIS_HOST", "REDIS_PASSWORD"}

\* self.repair_actions, config_autorepair.py:30-43
RepairActionTable ==
    {"generate_base64_key", "generate_encryption_keys", "generate_secret_key",
     "create_sysreptor_config", "fix_permissions", "create_from_template",
     "add_missing_env_vars", "populate_empty_env_vars", "repair_config_syntax",
     "fix_json_structure", "regenerate_encryption_key", "initialize_empire_db"}

\* length of the key _generate_secret_key returns, config_autorepair.py:85
GeneratedSecretKeyLen == 64

\* ValidationResult(passed, message, severity, auto_fixable, fix_action);
\* of the message only the variable list that the repair parses back is kept
ValidationResult(check, passed, severity, auto_fixable, fix_action, names) ==
    [check |-> check, passed |-> passed, severity |-> severity,
     auto_fixable |-> auto_fixable, fix_action |-> fix_action, names |-> names]

Passed(check) == ValidationResult(check, TRUE, "error", FALSE, "none", {})

\* ConfigurationValidator.validate_environment_variables
validate_environment_variables(cf) ==
    LET missing_vars == {v \in RequiredVars : cf.vars[v] = "missing"}
        empty_vars   == {v \in RequiredVars : cf.vars[v] = "empty"}
    IN IF missing_vars # {}
       THEN ValidationResult("env", FALSE, "error", TRUE, "add_missing_env_vars", missing_vars)
       ELSE IF empty_vars # {}
       THEN ValidationResult("env", FALSE, "error", TRUE, "populate_empty_env_vars", empty_vars)
       ELSE Passed("env")

\* the SECRET_KEY length check, config_validator.py:323-335
validate_secret_key(cf) ==
    IF cf.secret_len < MinSecretKeyLen
    THEN ValidationResult("secret_key", FALSE, "warning", TRUE, "generate_secret_key", {})
    ELSE Passed("secret_key")

\* ConfigurationValidator.validate_encryption_keys
validate_encryption_keys(enc) ==
    CASE enc = "valid"         -> Passed("encryption_keys")
      [] enc = "bad_json"      -> ValidationResult("encryption_keys", FALSE, "error", TRUE,
                                                   "generate_encryption_keys", {})
      [] enc = "empty_list"    -> ValidationResult("encryption_keys", FALSE, "error", TRUE,
                                                   "generate_encryption_keys", {})
      [] enc = "missing_field" -> ValidationResult("encryption_keys", FALSE, "error", TRUE,
                                                   "fix_encryption_key_structure", {})
      [] enc = "bad_key"       -> ValidationResult("encryption_keys", FALSE, "error", TRUE,
                                                   "regenerate_encryption_key", {})
      [] enc = "bad_cipher"    -> ValidationResult("encryption_keys", FALSE, "warning", FALSE,
                                                   "none", {})

\* ConfigurationValidator.validate_database_connection
validate_database_connection(reachable) ==
    IF reachable THEN Passed("database")
    ELSE ValidationResult("database", FALSE, "error", FALSE, "none", {})

\* validate_redis_connection marking a refused connection as repairable
validate_redis_connection_fixable(reachable) ==
    IF reachable THEN Passed("redis")
    ELSE ValidationResult("redis", FALSE, "error", TRUE, "fix_permissions", {})

\* ConfigurationValidator.validate_redis_connection
validate_redis_connection(reachable) ==
    IF reachable THEN Passed("redis")
    ELSE ValidationResult("redis", FALSE, "error", FALSE, "none", {})

\* the result appended by the except clause, config_validator.py:363-369
SyntaxErrorResult ==
    ValidationResult("parse", FALSE, "error", TRUE, "repair_config_syntax", {})

Present(cf, names) == \A v \in names : cf.vars[v] # "missing"

\* ConfigurationValidator.validate_sysreptor_configuration; env says which
\* external dependencies answer at the time of the call
validate_sysreptor_configuration(cf, env) ==
    IF ~cf.exists
    THEN << ValidationResult("exists", FALSE, "error", TRUE, "create_sysreptor_config", {}) >>
    ELSE
      LET r_env    == << validate_environment_variables(cf) >>
          r_secret == IF cf.vars["SECRET_KEY"] # "missing"
                      THEN << validate_secret_key(cf) >> ELSE << >>
          r_enc    == IF cf.enc # "absent"
                      THEN << validate_encryption_keys(cf.enc) >> ELSE << >>
          db_run   == Present(cf, DatabaseVars)
          rd_run   == Present(cf, RedisVars)
          \* int(DATABASE_PORT) raising ends the try block
          db_raise == db_run /\ ~cf.db_port_numeric
          r_db     == IF ~db_run THEN << >>
                      ELSE IF db_raise THEN << SyntaxErrorResult >>
                      ELSE << validate_database_connection(env.db) >>
          r_redis  == IF db_raise \/ ~rd_run THEN << >>
                      ELSE IF ~cf.redis_port_numeric THEN << SyntaxErrorResult >>
                      ELSE << validate_redis_connection(env.redis) >>
      IN r_env \o r_secret \o r_enc \o r_db \o r_redis

FailedResults(results) == SelectSeq(results, LAMBDA r : ~r.passed)

(***************************************************************************)
(* The checks on single values.  A value handed to                         *)
(* validate_base64_encoding is None, a number (a JSON value that is no     *)
(* string) or a text; of a text the model keeps what base64.b64decode      *)
(* looks at: chars, the number of characters of the base64 alphabet it     *)
(* starts with; padded, whether the '=' signs that complete the last group *)
(* of four follow them; clean, whether no other character occurs in it.    *)
(***************************************************************************)
\* the bound on the length of a text, in alphabet characters
MaxChars == 60

\* decoded length below which a key is rejected, config_validator.py:73
MinKeyBytes == 16

NoneValue == [kind |-> "none", chars |-> 0, padded |-> FALSE, clean |-> TRUE]
NumberValue == [kind |-> "number", chars |-> 0, padded |-> FALSE, clean |-> TRUE]
Text(chars, padded, clean) ==
    [kind |-> "str", chars |-> chars, padded |-> padded, clean |-> clean]

Base64Texts ==
    { Text(n, pd, cl) : n \in 0..MaxChars, pd \in BOOLEAN, cl \in BOOLEAN }

Base64Values == {NoneValue, NumberValue} \cup Base64Texts

\* Python's truth value of the value: not value
Falsy(value) ==
    \/ value.kind = "none"
    \/ value.kind = "str" /\ value.chars = 0 /\ value.clean

\* base64.b64decode(value, validate=True): the number of decoded bytes, or
\* the exception (TypeError for a value that is no text, binascii.Error for
\* a foreign character, for 4k+1 characters and for missing padding)
b64decode(value) ==
    IF \/ value.kind # "str"
       \/ ~value.clean
       \/ value.chars % 4 = 1
       \/ value.chars % 4 \in {2, 3} /\ ~value.padded
    THEN [raises |-> TRUE, len |-> 0]
    ELSE [raises |-> FALSE, len |-> (value.chars * 3) \div 4]

InvalidBase64 == ValidationResult("base64", FALSE, "error", TRUE, "generate_base64_key", {})

\* validate_base64_encoding accepting every text that decodes
validate_base64_encoding_any_length(value) ==
    IF Falsy(value) \/ b64decode(value).raises THEN InvalidBase64 ELSE Passed("base64")

\* ConfigurationValidator.validate_base64_encoding
validate_base64_encoding(value) ==
    IF Falsy(value) THEN InvalidBase64
    ELSE IF b64decode(value).raises THEN InvalidBase64
    ELSE IF b64decode(value).len < MinKeyBytes THEN InvalidBase64
    ELSE Passed("base64")

\* test_cases of test_base64_validation, test_enhanced_healing.py:53-59:
\* the value and should_pass
Base64TestCases ==
    { [description |-> "Valid base64",      value |-> Text(16, TRUE, TRUE),  should_pass |-> TRUE],
      [description |-> "Invalid base64",    value |-> Text(13, FALSE, FALSE), should_pass |-> FALSE],
      [description |-> "Empty string",      value |-> Text(0, FALSE, TRUE),  should_pass |-> FALSE],
      [description |-> "Short key",         value |-> Text(7, TRUE, TRUE),   should_pass |-> FALSE],
      [description |-> "Proper key length", value |-> Text(60, TRUE, TRUE),  should_pass |-> TRUE] }

(***************************************************************************)
(* JSON texts.  The argument of a JSON check is None, a text json.loads    *)
(* rejects, or the text of a value; of a parsed value the model keeps its  *)
(* type and has, the names k for which the Python test `k in data` is true *)
(* (the keys of an object, the strings in an array, the substrings of a    *)
(* string); the test raises TypeError for a number, null, true and false.  *)
(***************************************************************************)
JsonKeys == {"id", "key"}

ContainerTypes == {"object", "array", "string"}
ScalarTypes == {"number", "null", "bool"}

JsonNone == [kind |-> "none", type |-> "-", has |-> {}]
JsonUnparsable == [kind |-> "unparsable", type |-> "-", has |-> {}]
JsonText(type, has) == [kind |-> "json", type |-> type, has |-> has]

JsonTexts ==
    {JsonNone, JsonUnparsable}
    \cup { JsonText(t, h) : t \in ContainerTypes, h \in SUBSET JsonKeys }
    \cup { JsonText(t, {}) : t \in ScalarTypes }

InvalidJson == ValidationResult("json", FALSE, "error", TRUE, "fix_json_structure", {})

\* ConfigurationValidator.validate_json_structure; required_keys {} is the
\* default None (or an empty list).  Only json.JSONDecodeError is handled:
\* the TypeError of json.loads(None) and of `key not in data` leaves the
\* function
validate_json_structure(json_str, required_keys) ==
    IF json_str.kind = "none" THEN [raised |-> TRUE, result |-> Passed("-")]
    ELSE IF json_str.kind = "unparsable" THEN [raised |-> FALSE, result |-> InvalidJson]
    ELSE IF required_keys # {} /\ json_str.type \in ScalarTypes
    THEN [raised |-> TRUE, result |-> Passed("-")]
    ELSE IF required_keys # {} /\ required_keys \ json_str.has # {}
    THEN [raised |-> FALSE, result |-> InvalidJson]
    ELSE [raised |-> FALSE, result |-> Passed("json")]

(***************************************************************************)
(* ENCRYPTION_KEYS.  An entry of the parsed list is an object, a string or *)
(* a number; fields are the names of required_fields found `in` it, key    *)
(* its 'key' value and cipher its 'cipher' value.                          *)
(***************************************************************************)
\* the bound on the number of entries of the list
MaxKeys == 2

\* required_fields, config_validator.py:132
RequiredFields == {"id", "key", "cipher", "revoked"}

KeyEntry(type, fields, key, cipher) ==
    [type |-> type, fields |-> fields, key |-> key, cipher |-> cipher]

\* a key _generate_base64_key(32) returns: 43 alphabet characters and one "="
GoodKey == Text(43, TRUE, TRUE)

KeyEntries ==
    { KeyEntry("object", f, k, c) :
         f \in {RequiredFields, RequiredFields \ {"key"}},
         k \in {GoodKey, Text(7, TRUE, TRUE), Text(13, FALSE, FALSE),
                NumberValue, NoneValue},
         c \in {"AES-GCM", "AES-CBC"} }
    \cup { KeyEntry("string", f, NoneValue, "-") : f \in {RequiredFields, {}} }
    \cup { KeyEntry("number", {}, NoneValue, "-") }

KeyLists == UNION { [1..n -> KeyEntries] : n \in 0..MaxKeys }

KeysNone == [kind |-> "none", type |-> "-", entries |-> << >>]
KeysUnparsable == [kind |-> "unparsable", type |-> "-", entries |-> << >>]
KeysJson(type, entries) == [kind |-> "json", type |-> type, entries |-> entries]

EncryptionKeysTexts ==
    {KeysNone, KeysUnparsable}
    \cup { KeysJson(t, << >>) : t \in {"object", "string", "number", "null"} }
    \cup { KeysJson("array", entries) : entries \in KeyLists }

KeysResult(severity, auto_fixable, fix_action) ==
    ValidationResult("encryption_keys", FALSE, severity, auto_fixable, fix_action, {})

\* what the loop body of validate_encryption_keys finds for one entry
\* (config_validator.py:131-158): "ok" when it goes on to the next entry
EntryCheck(key_obj) ==
    IF key_obj.type = "number" THEN "raises"
    ELSE IF RequiredFields \ key_obj.fields # {} THEN "missing_field"
    ELSE IF key_obj.type # "object" THEN "raises"
    ELSE IF ~validate_base64_encoding(key_obj.key).passed THEN "bad_key"
    ELSE IF key_obj.cipher # "AES-GCM" THEN "bad_cipher"
    ELSE "ok"

EntryResult(found) ==
    CASE found = "raises"        -> KeysResult("error", TRUE, "generate_encryption_keys")
      [] found = "missing_field" -> KeysResult("error", TRUE, "fix_encryption_key_structure")
      [] found = "bad_key"       -> KeysResult("error", TRUE, "regenerate_encryption_key")
      [] found = "bad_cipher"    -> KeysResult("warning", FALSE, "none")

\* the first entry the loop does not pass over, 0 when there is none
FirstDefect(entries) ==
    IF \A i \in DOMAIN entries : EntryCheck(entries[i]) = "ok" THEN 0
    ELSE CHOOSE i \in DOMAIN entries :
            /\ EntryCheck(entries[i]) # "ok"
            /\ \A j \in 1..(i - 1) : EntryCheck(entries[j]) = "ok"

\* validate_encryption_keys treating an unsupported cipher as an error
\* that the repair may fix
validate_encryption_keys_str_cipher_error(encryption_keys_str) ==
    IF encryption_keys_str.kind # "json"
    THEN KeysResult("error", TRUE, "generate_encryption_keys")
    ELSE IF encryption_keys_str.type # "array" \/ encryption_keys_str.entries = << >>
    THEN KeysResult("error", TRUE, "generate_encryption_keys")
    ELSE IF FirstDefect(encryption_keys_str.entries) = 0
    THEN Passed("encryption_keys")
    ELSE KeysResult("error", TRUE, "regenerate_encryption_key")

\* ConfigurationValidator.validate_encryption_keys on the text of the
\* variable; every exception is handled (config_validator.py:162-168)
validate_encryption_keys_str(encryption_keys_str) ==
    IF encryption_keys_str.kind # "json"
    THEN KeysResult("error", TRUE, "generate_encryption_keys")
    ELSE IF encryption_keys_str.type # "array" \/ encryption_keys_str.entries = << >>
    THEN KeysResult("error", TRUE, "generate_encryption_keys")
    ELSE IF FirstDefect(encryption_keys_str.entries) = 0
    THEN Passed("encryption_keys")
    ELSE EntryResult(EntryCheck(
            encryption_keys_str.entries[FirstDefect(encryption_keys_str.entries)]))

\* a text of each shape the model of app.env distinguishes (cfg.enc)
EncryptionKeysOf(enc) ==
    CASE enc = "valid"         -> KeysJson("array", << KeyEntry("object", RequiredFields, GoodKey, "AES-GCM") >>)
      [] enc = "bad_json"      -> KeysUnparsable
      [] enc = "empty_list"    -> KeysJson("array", << >>)
      [] enc = "missing_field" -> KeysJson("array", << KeyEntry("object", {"id"}, NoneValue, "-") >>)
      [] enc = "bad_key"       -> KeysJson("array", << KeyEntry("object", RequiredFields,
                                                              Text(13, FALSE, FALSE), "AES-GCM") >>)
      [] enc = "bad_cipher"    -> KeysJson("array", << KeyEntry("object", RequiredFields, GoodKey, "AES-CBC") >>)

(***************************************************************************)
(* Configuration repair                                                    *)
(***************************************************************************)
\* the file _create_sysreptor_config writes, config_autorepair.py:123-162
\* default_values of _add_missing_env_vars and _populate_empty_env_vars
\* (config_autorepair.py:229-243, 293-302), which are also the values of
\* the generated file; the generated SECRET_KEY is a fresh random string
default_values ==
    [v \in RequiredVars |->
        CASE v = "SECRET_KEY"        -> "<generated>"
          [] v = "DATABASE_HOST"     -> "rtpi-database"
          [] v = "DATABASE_NAME"     -> "sysreptor"
          [] v = "DATABASE_USER"     -> "sysreptor"
          [] v = "DATABASE_PASSWORD" -> "sysreptorpassword"
          [] v = "REDIS_HOST"        -> "sysreptor-redis"
          [] v = "REDIS_PASSWORD"    -> "sysreptorredispassword"]

\* Besides the content of app.env the record keeps what the repair leaves
\* around it: lines[v] is the number of lines of app.env that assign v,
\* value[v] the value the file gives v ("" when it gives none),
\* keys_generated the number of times fresh encryption keys were written,
\* backups the number of backup copies made (len(self.config_backups)),
\* writes the number of times a file was opened for writing, and
\* empire_db the state of /opt/empire/data/empire.db.
GeneratedConfig ==
    [exists |-> TRUE,
     vars |-> [v \in RequiredVars |-> "set"],
     secret_len |-> GeneratedSecretKeyLen,
     enc |-> "valid",
     db_port_numeric |-> TRUE,
     redis_port_numeric |-> TRUE,
     lines |-> [v \in RequiredVars |-> 1],
     value |-> default_values,
     keys_generated |-> 0,
     backups |-> 0,
     writes |-> 0,
     empire_db |-> "data"]

\* ConfigurationAutoRepair._backup_config_file: a copy is made, and its
\* path recorded, when the file exists
backup_config_file(cf) ==
    IF cf.exists THEN [cf EXCEPT !.backups = @ + 1] ELSE cf

\* _create_sysreptor_config writing a SECRET_KEY of 32 characters
create_sysreptor_config_short_key(cf, env) ==
    IF env.template
    THEN [ok |-> TRUE,
          cfg |-> [GeneratedConfig EXCEPT
                     !.secret_len = 32,
                     !.keys_generated = cf.keys_generated + 1,
                     !.backups = cf.backups,
                     !.writes = cf.writes + 1,
                     !.empire_db = cf.empire_db]]
    ELSE [ok |-> FALSE, cfg |-> cf]

\* ConfigurationAutoRepair._create_sysreptor_config: the file is written
\* from the template with fresh keys; no backup is taken
create_sysreptor_config(cf, env) ==
    IF env.template
    THEN [ok |-> TRUE,
          cfg |-> [GeneratedConfig EXCEPT
                     !.keys_generated = cf.keys_generated + 1,
                     !.backups = cf.backups,
                     !.writes = cf.writes + 1,
                     !.empire_db = cf.empire_db]]
    ELSE [ok |-> FALSE, cfg |-> cf]

\* the content open(config_path, 'w') starts from when there is no file
BlankConfig(cf) ==
    [cf EXCEPT !.exists = TRUE,
               !.vars = [v \in RequiredVars |-> "missing"],
               !.lines = [v \in RequiredVars |-> 0],
               !.value = [v \in RequiredVars |-> ""],
               !.secret_len = 0,
               !.enc = "absent",
               !.db_port_numeric = TRUE,
               !.redis_port_numeric = TRUE]

\* _add_missing_env_vars appending the variables without their defaults
add_missing_env_vars_no_defaults(cf, names) ==
    [ok  |-> names # {},
     cfg |-> [backup_config_file(cf) EXCEPT
                !.vars = [v \in RequiredVars |-> IF v \in names THEN "empty" ELSE @[v]],
                !.lines = [v \in RequiredVars |-> IF v \in names THEN @[v] + 1 ELSE @[v]],
                !.value = [v \in RequiredVars |-> IF v \in names THEN "" ELSE @[v]],
                !.writes = @ + 1]]

\* ConfigurationAutoRepair._add_missing_env_vars: the backup, then a line
\* appended for each listed variable (every required variable has a
\* default), whether or not the file already assigns it
add_missing_env_vars(cf, names) ==
    LET saved == backup_config_file(cf)
        base  == IF cf.exists THEN saved ELSE BlankConfig(saved)
    IN IF names = {}
       THEN [ok |-> FALSE, cfg |-> saved]
       ELSE [ok  |-> TRUE,
             cfg |-> [base EXCEPT
                        !.vars = [v \in RequiredVars |->
                                     IF v \in names THEN "set" ELSE base.vars[v]],
                        !.lines = [v \in RequiredVars |->
                                     IF v \in names THEN base.lines[v] + 1
                                     ELSE base.lines[v]],
                        !.value = [v \in RequiredVars |->
                                     IF v \in names THEN default_values[v]
                                     ELSE base.value[v]],
                        !.secret_len = IF "SECRET_KEY" \in names
                                       THEN GeneratedSecretKeyLen ELSE base.secret_len,
                        !.writes = @ + 1]]

\* _populate_empty_env_vars writing the lines back as it read them
populate_empty_env_vars_unchanged(cf, names) ==
    IF ~cf.exists
    THEN [ok |-> FALSE, cfg |-> cf]
    ELSE [ok |-> TRUE, cfg |-> [backup_config_file(cf) EXCEPT !.writes = @ + 1]]

\* ConfigurationAutoRepair._populate_empty_env_vars: the backup, then the
\* file rewritten with the blank values among the listed variables filled
populate_empty_env_vars(cf, names) ==
    LET blank(v) == v \in names /\ cf.vars[v] = "empty"
        saved    == backup_config_file(cf)
    IN IF ~cf.exists
       THEN [ok |-> FALSE, cfg |-> cf]
       ELSE [ok  |-> TRUE,
             cfg |-> [saved EXCEPT
                        !.vars = [v \in RequiredVars |->
                                     IF blank(v) THEN "set" ELSE cf.vars[v]],
                        !.value = [v \in RequiredVars |->
                                     IF blank(v) THEN default_values[v] ELSE cf.value[v]],
                        !.secret_len = IF blank("SECRET_KEY")
                                       THEN GeneratedSecretKeyLen ELSE cf.secret_len,
                        !.writes = @ + 1]]

\* ConfigurationAutoRepair._fix_encryption_keys_json: the backup, then the
\* ENCRYPTION_KEYS line, if there is one, replaced by fresh keys
fix_encryption_keys_json(cf) ==
    IF ~cf.exists
    THEN [ok |-> FALSE, cfg |-> cf]
    ELSE [ok  |-> TRUE,
          cfg |-> [backup_config_file(cf) EXCEPT
                     !.enc = IF cf.enc = "absent" THEN "absent" ELSE "valid",
                     !.keys_generated = @ + 1,
                     !.writes = @ + 1]]

\* ConfigurationAutoRepair._regenerate_encryption_key
regenerate_encryption_key(cf) == fix_encryption_keys_json(cf)

\* ConfigurationAutoRepair._repair_config_syntax on app.env: the backup,
\* then the lines rewritten as key=value; a value that is no integer stays
repair_config_syntax(cf) ==
    IF ~cf.exists
    THEN [ok |-> FALSE, cfg |-> cf]
    ELSE [ok |-> TRUE, cfg |-> [backup_config_file(cf) EXCEPT !.writes = @ + 1]]

\* ConfigurationAutoRepair._initialize_empire_db: the database file is
\* opened for writing and left empty; no backup is taken
initialize_empire_db(cf) ==
    [ok |-> TRUE, cfg |-> [cf EXCEPT !.empire_db = "empty", !.writes = @ + 1]]

(***************************************************************************)
(* app.env line by line, for the two repairs that edit it in place.  A     *)
(* line is described by what the repair reads from it: kind says whether   *)
(* it is an assignment (it contains '=' and does not start with '#'), a    *)
(* comment, a blank line or other text; key and value are the two sides of *)
(* the first '='; spaced, whether blanks surround them (strip() removes    *)
(* them); nl, whether the line ends with its '\n' (every line but possibly *)
(* the last does).                                                         *)
(***************************************************************************)
\* the bound on the number of lines of the file before a repair
MaxLines == 2

Line(kind, key, value, spaced, nl) ==
    [kind |-> kind, key |-> key, value |-> value, spaced |-> spaced, nl |-> nl]

AssignLine(key, value) == Line("assign", key, value, FALSE, TRUE)
BlankLine == Line("blank", "", "", FALSE, TRUE)
\* '# Added by auto-repair', config_autorepair.py:266
AddedComment == Line("comment", "# Added by auto-repair", "", FALSE, TRUE)

\* the keys of default_values in _add_missing_env_vars
\* (config_autorepair.py:229-243) among the variables of the model
AddDefaults == {"REDIS_HOST", "DEBUG"}
\* the keys of default_values in _populate_empty_env_vars
\* (config_autorepair.py:293-302) among the variables of the model
PopulateDefaults == {"REDIS_HOST", "ENCRYPTION_KEYS"}

\* not value or value == '""' or value == "''", config_autorepair.py:312
BlankValue(value) == value \in {"", "\"\"", "''"}

\* the lines a file is made of, each ending in '\n'
LineTexts ==
    { AssignLine("REDIS_HOST", v) : v \in {"", "\"\"", "''", "redis"} }
    \cup { AssignLine(k, v) : k \in {"DEBUG", "ENCRYPTION_KEYS"}, v \in {"", "on"} }
    \cup { Line("assign", "REDIS_HOST", "", TRUE, TRUE),
           Line("comment", "#REDIS_HOST", "", FALSE, TRUE),
           Line("text", "", "", FALSE, TRUE),
           BlankLine }

\* files of at most MaxLines lines; the last line may lack its '\n'
EnvContents ==
    UNION { { [i \in 1..n |-> IF i = n THEN [f[i] EXCEPT !.nl = last_nl] ELSE f[i]]
              : f \in { g \in [1..n -> LineTexts] : n > 0 /\ g[n] # BlankLine },
                last_nl \in BOOLEAN }
            \cup [1..n -> LineTexts]
            : n \in 0..MaxLines }

EnvFile(exists, content) ==
    [exists |-> exists, content |-> content, backups |-> 0, writes |-> 0]

EnvFiles == { EnvFile(TRUE, c) : c \in EnvContents } \cup { EnvFile(FALSE, << >>) }

\* the variable lists the repairs are called with
VarLists ==
    { << >>, <<"REDIS_HOST">>, <<"ENCRYPTION_KEYS">>, <<"DEBUG", "REDIS_HOST">> }

Elements(list) == { list[i] : i \in DOMAIN list }

\* additions, config_autorepair.py:255-260: a line for each listed variable
\* that has a default, in the order of the list
RECURSIVE additions(_)
additions(missing_vars) ==
    IF missing_vars = << >> THEN << >>
    ELSE (IF Head(missing_vars) \in AddDefaults
          THEN << AssignLine(Head(missing_vars), "default") >> ELSE << >>)
         \o additions(Tail(missing_vars))

\* existing_content += '\n' when the content does not end with it,
\* config_autorepair.py:263-264
Terminated(content) ==
    [i \in DOMAIN content |-> [content[i] EXCEPT !.nl = TRUE]]

\* ConfigurationAutoRepair._add_missing_env_vars on the lines of the file:
\* the backup, then existing_content with a blank line, the comment and the
\* additions after it written back; nothing is written without additions
existing_content(file, missing_vars) ==
    Only({ IF added = << >>
           THEN [ok |-> FALSE, file |-> saved]
           ELSE [ok |-> TRUE,
                 file |-> [saved EXCEPT
                             !.exists = TRUE,
                             !.content = Terminated(file.content)
                                         \o << BlankLine, AddedComment >> \o added,
                             !.writes = @ + 1]]
           : added \in {additions(missing_vars)},
             saved \in {IF file.exists THEN [file EXCEPT !.backups = @ + 1] ELSE file} })

\* the line _populate_empty_env_vars writes for a line it read,
\* config_autorepair.py:306-321
UpdatedLine(line, empty_vars) ==
    IF /\ line.kind = "assign"
       /\ line.key \in Elements(empty_vars)
       /\ BlankValue(line.value)
       /\ line.key \in PopulateDefaults
    THEN AssignLine(line.key, "default")
    ELSE line

\* _populate_empty_env_vars rewriting every line of a listed variable
updated_lines_any_value(file, empty_vars) ==
    IF ~file.exists
    THEN [ok |-> FALSE, file |-> file]
    ELSE [ok |-> TRUE,
          file |-> [file EXCEPT
                      !.content = [i \in DOMAIN file.content |->
                                     IF /\ file.content[i].kind = "assign"
                                        /\ file.content[i].key \in Elements(empty_vars)
                                     THEN AssignLine(file.content[i].key, "default")
                                     ELSE file.content[i]],
                      !.backups = @ + 1,
                      !.writes = @ + 1]]

\* ConfigurationAutoRepair._populate_empty_env_vars on the lines of the
\* file: the backup, then updated_lines written back; open() of a file that
\* does not exist raises and the handler returns False
updated_lines(file, empty_vars) ==
    IF ~file.exists
    THEN [ok |-> FALSE, file |-> file]
    ELSE [ok |-> TRUE,
          file |-> [file EXCEPT
                      !.content = [i \in DOMAIN file.content |->
                                     UpdatedLine(file.content[i], empty_vars)],
                      !.backups = @ + 1,
                      !.writes = @ + 1]]

(***************************************************************************)
(* A file whose owner and mode are checked: whether it exists, whether     *)
(* owner and mode are the expected 1000:1000 and 644, and whether its path *)
(* contains 'sysreptor' and ends in '.env', the one kind of path           *)
(* _create_from_template has a template for.                               *)
(***************************************************************************)
FileTargets ==
    { f \in [exists : BOOLEAN, owner_ok : BOOLEAN, perms_ok : BOOLEAN,
             sysreptor_env : BOOLEAN] :
        ~f.exists => (~f.owner_ok /\ ~f.perms_ok) }

\* ConfigurationValidator.validate_file_permissions
validate_file_permissions(f) ==
    IF ~f.exists
    THEN ValidationResult("permissions", FALSE, "error", TRUE, "create_from_template", {})
    ELSE IF ~f.owner_ok
    THEN ValidationResult("permissions", FALSE, "error", TRUE, "fix_permissions", {})
    ELSE IF ~f.perms_ok
    THEN ValidationResult("permissions", FALSE, "error", TRUE, "fix_permissions", {})
    ELSE Passed("permissions")

\* ConfigurationAutoRepair._create_from_template: the file as the process
\* creates it, owner and mode not yet set
create_from_template(f, env) ==
    IF f.sysreptor_env /\ env.template
    THEN [ok |-> TRUE, file |-> [f EXCEPT !.exists = TRUE]]
    ELSE [ok |-> FALSE, file |-> f]

\* ConfigurationAutoRepair._fix_permissions; commands says whether chown
\* and chmod succeed
fix_permissions(f, env, commands) ==
    Only({ IF ~made.ok THEN [ok |-> FALSE, file |-> f]
           ELSE IF ~commands THEN [ok |-> FALSE, file |-> made.file]
           ELSE [ok |-> TRUE,
                 file |-> [made.file EXCEPT !.owner_ok = TRUE, !.perms_ok = TRUE]]
           : made \in {IF f.exists THEN [ok |-> TRUE, file |-> f]
                       ELSE create_from_template(f, env)} })

\* one result of validate_file_permissions through the dispatch of
\* repair_validation_failures (config_autorepair.py:520-547): fix_permissions
\* gets the path found in 'File ... has wrong ...'; create_from_template is
\* called as repair_func(), without its file_path: TypeError
RepairFile(f, result, env, commands) ==
    IF result.fix_action = "fix_permissions"
    THEN Only({ [status |-> IF r.ok THEN "SUCCESS" ELSE "FAILED", file |-> r.file]
                : r \in {fix_permissions(f, env, commands)} })
    ELSE [status |-> "ERROR", file |-> f]

\* the tags whose repair function takes no argument: repair_func() returns
\* the generated (non-empty) string, which counts as success
GeneratorTags == {"generate_base64_key", "generate_encryption_keys", "generate_secret_key"}

\* the tags dispatched with arguments, config_autorepair.py:520-544
ArgumentTags ==
    {"create_sysreptor_config", "fix_permissions", "add_missing_env_vars",
     "populate_empty_env_vars"}

\* one result through the dispatch of repair_validation_failures
\* (config_autorepair.py:516-574): status and the file afterwards
RepairOne(cf, env, result) ==
    LET tag == result.fix_action
    IN CASE tag = "create_sysreptor_config" ->
              LET r == create_sysreptor_config(cf, env)
              IN [status |-> IF r.ok THEN "SUCCESS" ELSE "FAILED", cfg |-> r.cfg]
         [] tag = "add_missing_env_vars" ->
              LET r == add_missing_env_vars(cf, result.names)
              IN [status |-> IF r.ok THEN "SUCCESS" ELSE "FAILED", cfg |-> r.cfg]
         [] tag = "populate_empty_env_vars" ->
              LET r == populate_empty_env_vars(cf, result.names)
              IN [status |-> IF r.ok THEN "SUCCESS" ELSE "FAILED", cfg |-> r.cfg]
         [] tag = "fix_permissions" ->
              \* no 'File ... has' in the message of a SysReptor result
              [status |-> "FAILED", cfg |-> cf]
         [] tag \in GeneratorTags ->
              [status |-> "SUCCESS", cfg |-> cf]
         [] OTHER ->
              \* repair_func() without its required path: TypeError
              [status |-> "ERROR", cfg |-> cf]

NewRepairSummary ==
    [total_failures |-> 0, attempted_repairs |-> 0, successful_repairs |-> 0,
     failed_repairs |-> 0, repair_details |-> << >>]

\* ConfigurationAutoRepair.repair_validation_failures: the summary and the
\* file after the results were processed in order
RECURSIVE RepairFrom(_, _, _, _)
RepairFrom(results, cf, env, summary) ==
    IF results = << >>
    THEN [summary |-> summary, cfg |-> cf]
    ELSE
      LET result == Head(results)
          rest   == Tail(results)
      IN IF ~result.passed /\ result.auto_fixable /\ result.fix_action # "none"
         THEN LET counted == [summary EXCEPT !.total_failures = @ + 1]
              IN IF result.fix_action \in RepairActionTable
                 THEN Only({
                        Only({ RepairFrom(rest, r.cfg, env, s)
                            : s \in {[counted EXCEPT
                                  !.attempted_repairs = @ + 1,
                                  !.successful_repairs =
                                       IF r.status = "SUCCESS" THEN @ + 1 ELSE @,
                                  !.failed_repairs =
                                       IF r.status = "SUCCESS" THEN @ ELSE @ + 1,
                                  !.repair_details =
                                       Append(@, [action |-> result.fix_action,
                                                  status |-> r.status])]} })
                          : r \in {RepairOne(cf, env, result)} })
                 ELSE RepairFrom(rest, cf, env, counted)
         ELSE RepairFrom(rest, cf, env, summary)

\* repair_validation_failures counting every considered failure as attempted
repair_validation_failures_all_attempted(results, cf, env) ==
    Only({ [r EXCEPT !.summary.attempted_repairs = r.summary.total_failures]
           : r \in {RepairFrom(results, cf, env, NewRepairSummary)} })

\* repair_validation_failures counting a failure without repair action as
\* a failed repair
repair_validation_failures_unknown_failed(results, cf, env) ==
    Only({ [r EXCEPT !.summary.failed_repairs =
                        @ + r.summary.total_failures - r.summary.attempted_repairs]
           : r \in {RepairFrom(results, cf, env, NewRepairSummary)} })

\* repair_validation_failures not counting a repair that raised
repair_validation_failures_error_uncounted(results, cf, env) ==
    Only({ [r EXCEPT !.summary.failed_repairs =
                        Len(SelectSeq(r.summary.repair_details,
                                      LAMBDA d : d.status = "FAILED"))]
           : r \in {RepairFrom(results, cf, env, NewRepairSummary)} })

\* ConfigurationAutoRepair.repair_validation_failures
repair_validation_failures(results, cf, env) ==
    RepairFrom(results, cf, env, NewRepairSummary)

(***************************************************************************)
(* The standalone validation and repair cycle                              *)
(***************************************************************************)
\* ConfigurationValidator.validate_kasm_configuration on a host where
\* KASM_INSTALLED is not 'true': one passing result
validate_kasm_configuration ==
    << ValidationResult("kasm", TRUE, "info", FALSE, "none", {}) >>

\* ConfigurationValidator.validate_empire_configuration; an existing
\* database file has the expected owner and mode
validate_empire_configuration(cf) ==
    IF cf.empire_db # "missing"
    THEN << Passed("empire_permissions"), Passed("empire_db") >>
    ELSE << ValidationResult("empire_db", FALSE, "error", TRUE, "initialize_empire_db", {}) >>

\* run_comprehensive_validation counting only the results of severity
\* "error" as failed
run_comprehensive_validation_errors_only(cf, env) ==
    Only({ Only({ [total_checks |-> Len(validation_results),
                   passed_checks |-> Len(validation_results) - Len(errors),
                   failed_checks |-> Len(errors),
                   auto_fixable_failures |->
                       Len(SelectSeq(errors, LAMBDA r : r.auto_fixable)),
                   validation_results |-> validation_results,
                   overall_status |-> IF Len(errors) = 0 THEN "PASS" ELSE "FAIL"]
                  : errors \in {SelectSeq(validation_results,
                                          LAMBDA r : ~r.passed /\ r.severity = "error")} })
           : validation_results \in {validate_sysreptor_configuration(cf, env)
                                      \o validate_kasm_configuration
                                      \o validate_empire_configuration(cf)} })

\* ConfigurationValidator.run_comprehensive_validation
run_comprehensive_validation(cf, env) ==
    Only({ Only({ [total_checks |-> Len(validation_results),
                   passed_checks |-> passed_checks,
                   failed_checks |-> Len(validation_results) - passed_checks,
                   auto_fixable_failures |->
                       Len(SelectSeq(validation_results,
                                     LAMBDA r : ~r.passed /\ r.auto_fixable)),
                   validation_results |-> validation_results,
                   overall_status |-> IF Len(validation_results) - passed_checks = 0
                                      THEN "PASS" ELSE "FAIL"]
                  : passed_checks \in
                       {Len(SelectSeq(validation_results, LAMBDA r : r.passed))} })
           : validation_results \in {validate_sysreptor_configuration(cf, env)
                                      \o validate_kasm_configuration
                                      \o validate_empire_configuration(cf)} })

\* the exit status of config_validator.py run as a program,
\* config_validator.py:514
validator_exit_code(summary) == IF summary.overall_status = "PASS" THEN 0 ELSE 1

\* run_repair_cycle reporting success as soon as fewer checks fail after
\* the repair than before
run_repair_cycle_improvement(cf, env) ==
    Only({ IF validation_summary.failed_checks > 0
           THEN Only({ Only({ [initial_validation |-> validation_summary,
                               repaired |-> TRUE,
                               repairs_performed |-> rep.summary,
                               post_repair_validation |-> post_repair_validation,
                               overall_success |->
                                   post_repair_validation.failed_checks
                                      < validation_summary.failed_checks,
                               cfg |-> rep.cfg]
                              : post_repair_validation \in
                                   {run_comprehensive_validation(rep.cfg, env)} })
                       : rep \in {repair_validation_failures(
                                     validation_summary.validation_results, cf, env)} })
           ELSE [initial_validation |-> validation_summary,
                 repaired |-> FALSE,
                 repairs_performed |-> NewRepairSummary,
                 post_repair_validation |-> validation_summary,
                 overall_success |-> TRUE,
                 cfg |-> cf]
           : validation_summary \in {run_comprehensive_validation(cf, env)} })

\* run_repair_cycle reporting success without looking at the validation
\* that follows the repair
run_repair_cycle_optimistic(cf, env) ==
    [run_repair_cycle_improvement(cf, env) EXCEPT !.overall_success = TRUE]

\* run_repair_cycle taking a backup of app.env before it validates
run_repair_cycle_backup_first(cf, env) ==
    run_repair_cycle_improvement(backup_config_file(cf), env)

\* ConfigurationAutoRepair.run_repair_cycle: the report and the files
\* afterwards; repaired says whether repairs_performed is a summary (it is
\* None when nothing failed). The dependencies answer the same way
\* throughout one cycle.
run_repair_cycle(cf, env) ==
    Only({ IF validation_summary.failed_checks > 0
           THEN Only({ Only({ [initial_validation |-> validation_summary,
                               repaired |-> TRUE,
                               repairs_performed |-> rep.summary,
                               post_repair_validation |-> post_repair_validation,
                               overall_success |->
                                   post_repair_validation.overall_status = "PASS",
                               cfg |-> rep.cfg]
                              : post_repair_validation \in
                                   {run_comprehensive_validation(rep.cfg, env)} })
                       : rep \in {repair_validation_failures(
                                     validation_summary.validation_results, cf, env)} })
           ELSE [initial_validation |-> validation_summary,
                 repaired |-> FALSE,
                 repairs_performed |-> NewRepairSummary,
                 post_repair_validation |-> validation_summary,
                 overall_success |-> TRUE,
                 cfg |-> cf]
           : validation_summary \in {run_comprehensive_validation(cf, env)} })

\* the exit status of config_autorepair.py run as a program
exit_code(result) == IF result.overall_success THEN 0 ELSE 1

(***************************************************************************)
(* Derived views of the state                                              *)
(***************************************************************************)
Multiplier(c)     == DictGet(failure_tracker.backoff_multipliers, c, 1)
RestartCounter(c) == DictGet(failure_tracker.restart_counts, c, 0)
Ledger(c, k)      == DictGet(failure_tracker.failures, FailureKey(c, k), <<>>)
History(c, k)     == DictGet(recorded, FailureKey(c, k), <<>>)

TotalRecords  == SeqSum([key \in DOMAIN recorded |-> Len(recorded[key])], DOMAIN recorded)
TotalRestarts == SeqSum(restarted, DOMAIN restarted)

NoEnv == [db |-> TRUE, redis |-> TRUE, template |-> TRUE]

\* what is kept of the report of a repair cycle
\* (successive: 1 for a run that follows another operation, 2 for a run
\* that follows a run)
NoCycle ==
    [repaired |-> FALSE, pre_failed |-> 0, post_failed |-> 0,
     overall_success |-> FALSE, exit_code |-> 0, successive |-> 0]

\* the record of an operation; every action fills in the fields it uses
NoOp ==
    [op |-> "init", c |-> "-", k |-> "-", t |-> 0, count |-> 0, ret |-> FALSE,
     loop |-> FALSE, unhealthy |-> FALSE, strategy_calls |-> 0, heal |-> "none",
     restart_called |-> FALSE, gate |-> "none", validated |-> FALSE,
     failing_before |-> 0, successful_repairs |-> 0, env |-> NoEnv,
     issued |-> FALSE, raised |-> FALSE, recorded |-> FALSE, running |-> FALSE,
     tag |-> "-", names |-> {}, summary |-> NewRepairSummary, cycle |-> NoCycle,
     input |-> "-", keys |-> {}, result |-> Passed("-"), status |-> "-",
     after |-> Passed("-")]

(***************************************************************************)
(* RTHealerService.run: the four scheduled jobs and the status the health  *)
(* endpoint reports.  job is the job schedule.run_pending() is running,    *)
(* next_run the time each job is due; started, restarts, repairs and       *)
(* reported are history: the number of times each job was started, of      *)
(* restarts issued, of repairs counted, and the last status reported.      *)
(***************************************************************************)
Jobs == {"monitor_containers", "validate_configurations", "cleanup_logs",
         "backup_configurations"}

\* schedule.every(...).do(...), healer.py:653-656, in seconds
JobPeriod ==
    [j \in Jobs |->
        CASE j = "monitor_containers"      -> 30
          [] j = "validate_configurations" -> 30 * 60
          [] j = "cleanup_logs"            -> HourSeconds
          [] j = "backup_configurations"   -> 6 * HourSeconds]

NoStatus == [status |-> "-", healing_actions |-> 0, last_check |-> 0, uptime |-> 0]

\* RTHealerService.__init__ at time 0 followed by the scheduling of the
\* jobs at the start of run()
NewService ==
    [running |-> TRUE, last_check_time |-> 0, job |-> "none",
     next_run |-> JobPeriod, loops |-> 0,
     started |-> [j \in Jobs |-> 0], restarts |-> 0, repairs |-> 0,
     queries |-> 0, reported |-> NoStatus]

(***************************************************************************)
(* The tracker driven through its public methods, as a unit test of the   *)
(* class drives it with a controllable clock: the failure ledger           *)
(* (LedgerSpec) and the restart backoff (BackoffSpec)                      *)
(***************************************************************************)
TrackerInit ==
    /\ now = 0
    /\ advances = 0
    /\ failure_tracker = NewTracker
    /\ healing_actions = 0
    /\ cfg = GeneratedConfig
    /\ queue = << >>
    /\ ticked = FALSE
    /\ recorded = EmptyDict
    /\ restarted = [c \in AllContainers |-> 0]
    /\ service = NewService
    /\ last = NoOp

AdvanceClock(d) ==
    /\ advances < MaxAdvances
    /\ now' = now + d
    /\ advances' = advances + 1
    /\ ticked' = FALSE
    /\ last' = [NoOp EXCEPT !.op = "advance", !.t = now]
    /\ UNCHANGED <<service, failure_tracker, healing_actions, cfg, queue, recorded, restarted>>

CallRecordFailure(c, k) ==
    /\ TotalRecords < MaxRecords
    /\ failure_tracker' = record_failure(failure_tracker, c, k, now)
    /\ recorded' = DictPut(recorded, FailureKey(c, k), Append(History(c, k), now))
    /\ last' = [NoOp EXCEPT !.op = "record_failure", !.c = c, !.k = k, !.t = now]
    /\ UNCHANGED <<now, advances, serviceVars, restarted>>

CallGetFailureCount(c, k) ==
    /\ last' = [NoOp EXCEPT !.op = "get_failure_count", !.c = c, !.k = k, !.t = now,
                            !.count = get_failure_count(failure_tracker, c, k)]
    /\ UNCHANGED <<now, advances, failure_tracker, serviceVars, recorded, restarted>>

CallShouldRestart(c) ==
    /\ last' = [NoOp EXCEPT !.op = "should_restart", !.c = c, !.t = now,
                            !.ret = should_restart(failure_tracker, c, now)]
    /\ UNCHANGED <<now, advances, failure_tracker, serviceVars, recorded, restarted>>

CallRecordRestart(c) ==
    /\ TotalRestarts < MaxRestarts
    /\ failure_tracker' = record_restart(failure_tracker, c, now)
    /\ restarted' = [restarted EXCEPT ![c] = @ + 1]
    /\ last' = [NoOp EXCEPT !.op = "record_restart", !.c = c, !.t = now]
    /\ UNCHANGED <<now, advances, serviceVars, recorded>>

LedgerNext ==
    \/ \E d \in LedgerClockSteps : AdvanceClock(d)
    \/ \E c \in TrackedContainers, k \in FailureTypes : CallRecordFailure(c, k)
    \/ \E c \in TrackedContainers, k \in FailureTypes : CallGetFailureCount(c, k)

LedgerSpec == TrackerInit /\ [][LedgerNext]_vars

BackoffNext ==
    \/ \E d \in BackoffClockSteps : AdvanceClock(d)
    \/ \E c \in TrackedContainers : CallShouldRestart(c)
    \/ \E c \in TrackedContainers : CallRecordRestart(c)

BackoffSpec == TrackerInit /\ [][BackoffNext]_vars

(***************************************************************************)
(* RTHealerService: pre-start validation, restart, the monitoring loop     *)
(***************************************************************************)
\* RTHealerService._perform_prestart_validation: its verdict, the file
\* afterwards, and what the validation found
perform_prestart_validation(cf, container_name, env) ==
    IF container_name = "sysreptor-app"
    THEN Only({
           IF failed_validations # << >>
           THEN Only({
                  [ok |-> rep.summary.successful_repairs > 0,
                   cfg |-> rep.cfg,
                   failing |-> Len(failed_validations),
                   successful_repairs |-> rep.summary.successful_repairs]
                    : rep \in {repair_validation_failures(failed_validations, cf, env)} })
           ELSE [ok |-> TRUE, cfg |-> cf, failing |-> 0, successful_repairs |-> 0]
             : failed_validations \in {FailedResults(validate_sysreptor_configuration(cf, env))} })
    ELSE [ok |-> TRUE, cfg |-> cf, failing |-> 0, successful_repairs |-> 0]

\* what the runtime does with one _restart_container call:
\*   get_raises      docker_client.containers.get raises (container gone)
\*   restart_raises  container.restart() raises
\*   running         the restart returns and container.status is 'running'
\*   not_running     the restart returns and the container is not running
RestartOutcomes == {"get_raises", "restart_raises", "running", "not_running"}

\* the state a _restart_container call starts from, as a result record
NotRestarted(T, ha, cf, t) ==
    [tracker |-> T, healing_actions |-> ha, cfg |-> cf, now |-> t,
     restart_called |-> FALSE, gate |-> "none", validated |-> FALSE,
     failing_before |-> 0, successful_repairs |-> 0,
     issued |-> FALSE, raised |-> FALSE, recorded |-> FALSE, running |-> FALSE,
     ret |-> FALSE]

\* _restart_container without the backoff gate
restart_container_ungated(T, ha, cf, container_name, t, outcome, env) ==
    LET start == [NotRestarted(T, ha, cf, t) EXCEPT !.restart_called = TRUE]
    IN IF outcome = "get_raises"
       THEN [start EXCEPT !.raised = TRUE]
       ELSE Only({
         LET validated == [start EXCEPT
                             !.gate = IF should_restart(T, container_name, t)
                                      THEN "pass" ELSE "backoff",
                             !.validated = TRUE,
                             !.cfg = pv.cfg,
                             !.failing_before = pv.failing,
                             !.successful_repairs = pv.successful_repairs]
         IN IF ~pv.ok
            THEN validated
            ELSE IF outcome = "restart_raises"
            THEN [validated EXCEPT !.issued = TRUE, !.raised = TRUE]
            ELSE [validated EXCEPT
                    !.issued = TRUE,
                    !.tracker = record_restart(T, container_name, t),
                    !.recorded = TRUE,
                    !.healing_actions = ha + 1,
                    !.now = t + StabilizeSeconds,
                    !.running = (outcome = "running"),
                    !.ret = (outcome = "running")]
                : pv \in {perform_prestart_validation(cf, container_name, env)} })

\* _restart_container recording the restart only after it saw the
\* container running
restart_container_record_on_success(T, ha, cf, container_name, t, outcome, env) ==
    LET start == [NotRestarted(T, ha, cf, t) EXCEPT !.restart_called = TRUE]
    IN IF outcome = "get_raises"
       THEN [start EXCEPT !.raised = TRUE]
       ELSE IF ~should_restart(T, container_name, t)
       THEN [start EXCEPT !.gate = "backoff"]
       ELSE Only({
         LET validated == [start EXCEPT !.gate = "pass", !.validated = TRUE,
                                        !.cfg = pv.cfg,
                                        !.failing_before = pv.failing,
                                        !.successful_repairs = pv.successful_repairs]
         IN IF ~pv.ok
            THEN validated
            ELSE IF outcome = "restart_raises"
            THEN [validated EXCEPT !.issued = TRUE, !.raised = TRUE]
            ELSE IF outcome = "running"
            THEN [validated EXCEPT
                    !.issued = TRUE,
                    !.tracker = record_restart(T, container_name, t),
                    !.recorded = TRUE,
                    !.healing_actions = ha + 1,
                    !.now = t + StabilizeSeconds,
                    !.running = TRUE,
                    !.ret = TRUE]
            ELSE [validated EXCEPT !.issued = TRUE, !.now = t + StabilizeSeconds]
                : pv \in {perform_prestart_validation(cf, container_name, env)} })

\* RTHealerService._restart_container at time t
restart_container(T, ha, cf, container_name, t, outcome, env) ==
    LET start == [NotRestarted(T, ha, cf, t) EXCEPT !.restart_called = TRUE]
    IN IF outcome = "get_raises"
       THEN [start EXCEPT !.raised = TRUE]
       ELSE IF ~should_restart(T, container_name, t)
       THEN [start EXCEPT !.gate = "backoff"]
       ELSE Only({
         LET validated == [start EXCEPT !.gate = "pass", !.validated = TRUE,
                                        !.cfg = pv.cfg,
                                        !.failing_before = pv.failing,
                                        !.successful_repairs = pv.successful_repairs]
         IN IF ~pv.ok
            THEN validated
            ELSE IF outcome = "restart_raises"
            THEN [validated EXCEPT !.issued = TRUE, !.raised = TRUE]
            ELSE [validated EXCEPT
                    !.issued = TRUE,
                    !.tracker = record_restart(T, container_name, t),
                    !.recorded = TRUE,
                    !.healing_actions = ha + 1,
                    !.now = t + StabilizeSeconds,
                    !.running = (outcome = "running"),
                    !.ret = (outcome = "running")]
                : pv \in {perform_prestart_validation(cf, container_name, env)} })

\* what _get_container_status reports for a container
InspectResults ==
    {[status |-> "running",    health |-> "healthy",   restart_count |-> 0],
     [status |-> "running",    health |-> "unhealthy", restart_count |-> 0],
     [status |-> "exited",     health |-> "unknown",   restart_count |-> 3],
     [status |-> "exited",     health |-> "unknown",   restart_count |-> 4],
     [status |-> "restarting", health |-> "unhealthy", restart_count |-> 4],
     [status |-> "not_found",  health |-> "none",      restart_count |-> 0]}

\* what a healing strategy does when it is called
HealOutcomes == {"true", "false", "raise"}

Envs == [db : BOOLEAN, redis : BOOLEAN, template : {TRUE}]

\* the loop body forgetting the backoff of a container it finds healthy
monitor_container_reset(T, ha, cf, container_name, t, status, heal, outcome, env) ==
    LET loop      == /\ status.status \in {"restarting", "exited"}
                     /\ status.restart_count > RestartLoopThreshold
        T1        == IF loop THEN record_failure(T, container_name, "restart_loop", t) ELSE T
        strategy  == container_name \in healing_strategies
        go        == loop /\ (~strategy \/ heal = "true")
        unhealthy == status.health = "unhealthy"
    IN Only({
    LET T2        == IF unhealthy
                     THEN record_failure(r.tracker, container_name, "unhealthy", r.now)
                     ELSE r.tracker
        T3        == IF ~loop /\ ~unhealthy /\ status.status = "running"
                     THEN [T2 EXCEPT !.backoff_multipliers =
                              [x \in (DOMAIN @) \ {container_name} |-> @[x]]]
                     ELSE T2
    IN [r EXCEPT !.tracker = T3]
       @@ [loop |-> loop, unhealthy |-> unhealthy,
           strategy_calls |-> (IF loop /\ strategy THEN 1 ELSE 0)
                              + (IF unhealthy /\ strategy THEN 1 ELSE 0),
           heal |-> IF loop /\ strategy THEN heal ELSE "none"]
           : r \in {IF go THEN restart_container(T1, ha, cf, container_name, t, outcome, env)
             ELSE NotRestarted(T1, ha, cf, t)} })

\* the body of the loop restarting a container in a restart loop whatever
\* its healing strategy returned
monitor_container_restart_always(T, ha, cf, container_name, t, status, heal, outcome, env) ==
    LET loop      == /\ status.status \in {"restarting", "exited"}
                     /\ status.restart_count > RestartLoopThreshold
        T1        == IF loop THEN record_failure(T, container_name, "restart_loop", t) ELSE T
        strategy  == container_name \in healing_strategies
        unhealthy == status.health = "unhealthy"
    IN Only({
    LET T2        == IF unhealthy
                     THEN record_failure(r.tracker, container_name, "unhealthy", r.now)
                     ELSE r.tracker
    IN [r EXCEPT !.tracker = T2]
       @@ [loop |-> loop, unhealthy |-> unhealthy,
           strategy_calls |-> (IF loop /\ strategy THEN 1 ELSE 0)
                              + (IF unhealthy /\ strategy THEN 1 ELSE 0),
           heal |-> IF loop /\ strategy THEN heal ELSE "none"]
           : r \in {IF loop THEN restart_container(T1, ha, cf, container_name, t, outcome, env)
             ELSE NotRestarted(T1, ha, cf, t)} })

\* the body of the loop of _monitor_containers for one container
\* (healer.py:478-522)
monitor_container(T, ha, cf, container_name, t, status, heal, outcome, env) ==
    LET loop      == /\ status.status \in {"restarting", "exited"}
                     /\ status.restart_count > RestartLoopThreshold
        T1        == IF loop THEN record_failure(T, container_name, "restart_loop", t) ELSE T
        strategy  == container_name \in healing_strategies
        go        == loop /\ (~strategy \/ heal = "true")
        unhealthy == status.health = "unhealthy"
    IN Only({
    LET T2        == IF unhealthy
                     THEN record_failure(r.tracker, container_name, "unhealthy", r.now)
                     ELSE r.tracker
    IN [r EXCEPT !.tracker = T2]
       @@ [loop |-> loop, unhealthy |-> unhealthy,
           strategy_calls |-> (IF loop /\ strategy THEN 1 ELSE 0)
                              + (IF unhealthy /\ strategy THEN 1 ELSE 0),
           heal |-> IF loop /\ strategy THEN heal ELSE "none"]
           : r \in {IF go THEN restart_container(T1, ha, cf, container_name, t, outcome, env)
             ELSE NotRestarted(T1, ha, cf, t)} })

\* the file cf without the lines that assign the variables in names
WithoutVars(cf, names) ==
    [cf EXCEPT !.vars  = [v \in RequiredVars |-> IF v \in names THEN "missing" ELSE @[v]],
               !.lines = [v \in RequiredVars |-> IF v \in names THEN 0 ELSE @[v]],
               !.value = [v \in RequiredVars |-> IF v \in names THEN "" ELSE @[v]]]

\* the configuration files the service may find at start
InitialConfigs ==
    {GeneratedConfig,
     [GeneratedConfig EXCEPT !.secret_len = 20],
     WithoutVars(GeneratedConfig, RedisVars),
     [GeneratedConfig EXCEPT !.enc = "bad_key"]}

Init ==
    /\ now = 0
    /\ advances = 0
    /\ failure_tracker = NewTracker
    /\ healing_actions = 0
    /\ cfg \in InitialConfigs
    /\ queue = << >>
    /\ ticked = FALSE
    /\ recorded = EmptyDict
    /\ restarted = [c \in AllContainers |-> 0]
    /\ service = NewService
    /\ last = NoOp

\* time passes between two runs of the monitoring job
Wait(d) ==
    /\ queue = << >>
    /\ AdvanceClock(d)

\* schedule.run_pending() starts _monitor_containers: containers.list
StartMonitoring ==
    /\ queue = << >>
    /\ ~ticked
    /\ queue' = ContainerList
    /\ ticked' = TRUE
    /\ last' = [NoOp EXCEPT !.op = "start_monitoring", !.t = now]
    /\ UNCHANGED <<service, now, advances, failure_tracker, healing_actions, cfg,
                   recorded, restarted>>

\* the loop skips the supervisor's own container
SkipOwnContainer ==
    /\ queue # << >>
    /\ Head(queue) = "rtpi-healer"
    /\ queue' = Tail(queue)
    /\ last' = [NoOp EXCEPT !.op = "skip", !.c = Head(queue), !.t = now]
    /\ UNCHANGED <<service, now, advances, failure_tracker, healing_actions, cfg, ticked,
                   recorded, restarted>>

HistoryAfter(hist, c, loop, unhealthy, t1, t2) ==
    LET h1 == IF loop
              THEN DictPut(hist, FailureKey(c, "restart_loop"),
                           Append(DictGet(hist, FailureKey(c, "restart_loop"), <<>>), t1))
              ELSE hist
    IN IF unhealthy
       THEN DictPut(h1, FailureKey(c, "unhealthy"),
                    Append(DictGet(h1, FailureKey(c, "unhealthy"), <<>>), t2))
       ELSE h1

RestartLoop(status) ==
    /\ status.status \in {"restarting", "exited"}
    /\ status.restart_count > RestartLoopThreshold

\* the answers of the runtime and of the dependencies that one iteration
\* for container c can consume, given what it has consumed so far
HealInputs(c, status) ==
    IF RestartLoop(status) /\ c \in healing_strategies THEN HealOutcomes ELSE {"none"}

OutcomeInputs(c, status, heal) ==
    IF RestartLoop(status) /\ (c \notin healing_strategies \/ heal = "true")
    THEN RestartOutcomes ELSE {"running"}

EnvInputs(c, status, heal, outcome) ==
    IF /\ RestartLoop(status)
       /\ c = "sysreptor-app"
       /\ heal = "true"
       /\ outcome # "get_raises"
       /\ should_restart(failure_tracker, c, now)
    THEN Envs ELSE {NoEnv}

\* one iteration of the loop of _monitor_containers
MonitorWith(c, status, heal, outcome, env) ==
    \E r \in {monitor_container(failure_tracker, healing_actions, cfg, c, now,
                                status, heal, outcome, env)} :
       /\ TotalRecords + (IF r.loop THEN 1 ELSE 0)
                       + (IF r.unhealthy THEN 1 ELSE 0) <= MaxFlagged
       /\ failure_tracker' = r.tracker
       /\ healing_actions' = r.healing_actions
       /\ cfg' = r.cfg
       /\ now' = r.now
       /\ queue' = Tail(queue)
       /\ recorded' = HistoryAfter(recorded, c, r.loop, r.unhealthy, now, r.now)
       /\ restarted' = [restarted EXCEPT ![c] = IF r.recorded THEN @ + 1 ELSE @]
       /\ last' = [NoOp EXCEPT
                     !.op = "monitor", !.c = c, !.t = now,
                     !.ret = r.ret, !.loop = r.loop, !.unhealthy = r.unhealthy,
                     !.strategy_calls = r.strategy_calls, !.heal = r.heal,
                     !.restart_called = r.restart_called, !.gate = r.gate,
                     !.validated = r.validated,
                     !.failing_before = r.failing_before,
                     !.successful_repairs = r.successful_repairs,
                     !.env = env,
                     !.issued = r.issued, !.raised = r.raised,
                     !.recorded = r.recorded, !.running = r.running]
       /\ UNCHANGED <<service, advances, ticked>>

MonitorContainer ==
    /\ queue # << >>
    /\ Head(queue) # "rtpi-healer"
    /\ \E status \in InspectResults :
       \E heal \in HealInputs(Head(queue), status) :
       \E outcome \in OutcomeInputs(Head(queue), status, heal) :
       \E env \in EnvInputs(Head(queue), status, heal, outcome) :
          MonitorWith(Head(queue), status, heal, outcome, env)

Next ==
    \/ \E d \in ServiceClockSteps : Wait(d)
    \/ StartMonitoring
    \/ SkipOwnContainer
    \/ MonitorContainer

Spec == Init /\ [][Next]_vars

(***************************************************************************)
(* ConfigurationAutoRepair: its repair functions called directly, as a     *)
(* unit test calls them, repair_validation_failures on the results of a    *)
(* validation, and the repair cycle that the program runs (RepairSpec)     *)
(***************************************************************************)
\* the files the repair may find
RepairInitialConfigs ==
    {GeneratedConfig,
     WithoutVars(GeneratedConfig, RedisVars),
     [GeneratedConfig EXCEPT !.vars["SECRET_KEY"] = "empty",
                             !.value["SECRET_KEY"] = "",
                             !.secret_len = 0],
     [GeneratedConfig EXCEPT !.secret_len = 20],
     [GeneratedConfig EXCEPT !.enc = "missing_field"],
     [GeneratedConfig EXCEPT !.enc = "bad_key"],
     [GeneratedConfig EXCEPT !.enc = "missing_field", !.db_port_numeric = FALSE],
     [WithoutVars(GeneratedConfig, RedisVars) EXCEPT !.enc = "missing_field"],
     [GeneratedConfig EXCEPT !.empire_db = "missing"],
     [BlankConfig(GeneratedConfig) EXCEPT !.exists = FALSE]}

RepairInit ==
    /\ now = 0
    /\ advances = 0
    /\ failure_tracker = NewTracker
    /\ healing_actions = 0
    /\ cfg \in RepairInitialConfigs
    /\ queue = << >>
    /\ ticked = FALSE
    /\ recorded = EmptyDict
    /\ restarted = [c \in AllContainers |-> 0]
    /\ service = NewService
    /\ last = NoOp

\* the repair functions that touch a file, and the variable lists they
\* are called with
FileRepairTags ==
    {"add_missing_env_vars", "populate_empty_env_vars", "fix_encryption_keys_json",
     "regenerate_encryption_key", "repair_config_syntax", "create_sysreptor_config",
     "initialize_empire_db"}

VariableLists == {RedisVars, {"SECRET_KEY"}}

ArgumentLists(tag) ==
    IF tag \in {"add_missing_env_vars", "populate_empty_env_vars"}
    THEN VariableLists ELSE {{}}

\* self.repair_actions[tag] called with the path of the file it is for
repair_action(cf, tag, names) ==
    CASE tag = "add_missing_env_vars"      -> add_missing_env_vars(cf, names)
      [] tag = "populate_empty_env_vars"   -> populate_empty_env_vars(cf, names)
      [] tag = "fix_encryption_keys_json"  -> fix_encryption_keys_json(cf)
      [] tag = "regenerate_encryption_key" -> regenerate_encryption_key(cf)
      [] tag = "repair_config_syntax"      -> repair_config_syntax(cf)
      [] tag = "create_sysreptor_config"   -> create_sysreptor_config(cf, NoEnv)
      [] tag = "initialize_empire_db"      -> initialize_empire_db(cf)

CallRepairAction(tag, names) ==
    /\ cfg.writes < MaxWrites
    /\ \E r \in {repair_action(cfg, tag, names)} :
          /\ cfg' = r.cfg
          /\ last' = [NoOp EXCEPT !.op = "repair_action", !.tag = tag,
                                  !.names = names, !.ret = r.ok]
    /\ UNCHANGED <<service, now, advances, failure_tracker, healing_actions, queue, ticked,
                   recorded, restarted>>

\* repair_validation_failures on the results of a validation of app.env
CallRepairValidationFailures(env) ==
    /\ cfg.writes < MaxWrites
    /\ \E r \in {repair_validation_failures(
                    validate_sysreptor_configuration(cfg, env), cfg, env)} :
          /\ cfg' = r.cfg
          /\ last' = [NoOp EXCEPT !.op = "repair_validation_failures", !.env = env,
                                  !.summary = r.summary]
    /\ UNCHANGED <<service, now, advances, failure_tracker, healing_actions, queue, ticked,
                   recorded, restarted>>

\* config_autorepair.py run as a program
CallRunRepairCycle(env) ==
    /\ cfg.writes < MaxWrites
    /\ \E r \in {run_repair_cycle(cfg, env)} :
          /\ cfg' = r.cfg
          /\ last' = [NoOp EXCEPT
                        !.op = "run_repair_cycle", !.env = env,
                        !.summary = r.repairs_performed,
                        !.cycle = [repaired |-> r.repaired,
                                   pre_failed |-> r.initial_validation.failed_checks,
                                   post_failed |-> r.post_repair_validation.failed_checks,
                                   overall_success |-> r.overall_success,
                                   exit_code |-> exit_code(r),
                                   successive |-> IF last.op = "run_repair_cycle"
                                                  THEN 2 ELSE 1]]
    /\ UNCHANGED <<service, now, advances, failure_tracker, healing_actions, queue, ticked,
                   recorded, restarted>>

\* validate_sysreptor_configuration on app.env as it is; the file is only read
CallValidateSysreptorConfiguration(env) ==
    /\ \E results \in {validate_sysreptor_configuration(cfg, env)} :
          last' = [NoOp EXCEPT !.op = "validate_sysreptor_configuration", !.env = env,
                               !.count = Len(FailedResults(results))]
    /\ UNCHANGED <<service, now, advances, failure_tracker, healing_actions, cfg, queue,
                   ticked, recorded, restarted>>

\* config_validator.py run as a program: run_comprehensive_validation and
\* the exit status; the files are only read
CallRunComprehensiveValidation(env) ==
    /\ \E summary \in {run_comprehensive_validation(cfg, env)} :
          last' = [NoOp EXCEPT !.op = "run_comprehensive_validation", !.env = env,
                               !.input = summary,
                               !.count = validator_exit_code(summary)]
    /\ UNCHANGED <<service, now, advances, failure_tracker, healing_actions, cfg, queue,
                   ticked, recorded, restarted>>

\* invalid_config_content of test_auto_repair_capabilities
\* (test_enhanced_healing.py:180-189): a 9-character SECRET_KEY, the
\* database variables, no ENCRYPTION_KEYS, no REDIS_HOST, no REDIS_PASSWORD;
\* and the same file with a long SECRET_KEY
TestConfigs ==
    { [WithoutVars(GeneratedConfig, RedisVars) EXCEPT !.secret_len = n, !.enc = "absent"]
      : n \in {9, GeneratedSecretKeyLen} }

\* test_auto_repair_capabilities: the file temp_config, which is not
\* app.env, is written, validated, its failures are handed to
\* repair_validation_failures (whose repairs go to the path of app.env,
\* config_autorepair.py:522, 535), it is validated again and removed
TestAutoRepairCapabilities(temp_config, env) ==
    /\ cfg.writes < MaxWrites
    /\ \E failed_validations \in
            {FailedResults(validate_sysreptor_configuration(temp_config, env))} :
       \E r \in {repair_validation_failures(failed_validations, cfg, env)} :
          /\ cfg' = r.cfg
          /\ last' = [NoOp EXCEPT
                        !.op = "test_auto_repair", !.env = env,
                        !.input = temp_config,
                        !.failing_before = Len(failed_validations),
                        !.summary = r.summary,
                        !.count = Len(FailedResults(
                                     validate_sysreptor_configuration(temp_config, env))),
                        !.ret = Len(FailedResults(
                                     validate_sysreptor_configuration(temp_config, env)))
                                < Len(failed_validations)]
    /\ UNCHANGED <<service, now, advances, failure_tracker, healing_actions, queue, ticked,
                   recorded, restarted>>

RepairNext ==
    \/ \E temp_config \in TestConfigs : \E env \in Envs :
          TestAutoRepairCapabilities(temp_config, env)
    \/ \E tag \in FileRepairTags : \E names \in ArgumentLists(tag) :
          CallRepairAction(tag, names)
    \/ \E env \in Envs : CallRepairValidationFailures(env)
    \/ \E env \in Envs : CallRunRepairCycle(env)
    \/ \E env \in Envs : CallValidateSysreptorConfiguration(env)
    \/ \E env \in Envs : CallRunComprehensiveValidation(env)

RepairSpec == RepairInit /\ [][RepairNext]_vars

(***************************************************************************)
(* The checks of ConfigurationValidator called one at a time on a value,   *)
(* as test_enhanced_healing.py calls them, and a file whose permissions    *)
(* are validated, repaired and validated again (ValidatorSpec).  The       *)
(* checks keep no state, so a behaviour is one call on a fresh validator.  *)
(***************************************************************************)
CallValidateBase64Encoding(value) ==
    /\ last.op = "init"
    /\ last' = [NoOp EXCEPT !.op = "validate_base64_encoding", !.input = value,
                            !.result = validate_base64_encoding(value)]
    /\ UNCHANGED <<service, now, advances, failure_tracker, healing_actions, cfg, queue,
                   ticked, recorded, restarted>>

CallValidateJsonStructure(json_str, required_keys) ==
    /\ last.op = "init"
    /\ \E r \in {validate_json_structure(json_str, required_keys)} :
          last' = [NoOp EXCEPT !.op = "validate_json_structure", !.input = json_str,
                               !.keys = required_keys, !.raised = r.raised,
                               !.result = r.result]
    /\ UNCHANGED <<service, now, advances, failure_tracker, healing_actions, cfg, queue,
                   ticked, recorded, restarted>>

CallValidateEncryptionKeys(encryption_keys_str) ==
    /\ last.op = "init"
    /\ last' = [NoOp EXCEPT !.op = "validate_encryption_keys",
                            !.input = encryption_keys_str,
                            !.result = validate_encryption_keys_str(encryption_keys_str)]
    /\ UNCHANGED <<service, now, advances, failure_tracker, healing_actions, cfg, queue,
                   ticked, recorded, restarted>>

\* validate_database_connection / validate_redis_connection with a host
\* that answers or does not
CallValidateConnection(dependency, reachable) ==
    /\ last.op = "init"
    /\ last' = [NoOp EXCEPT !.op = "validate_connection", !.input = dependency,
                            !.ret = reachable,
                            !.result = IF dependency = "database"
                                       THEN validate_database_connection(reachable)
                                       ELSE validate_redis_connection(reachable)]
    /\ UNCHANGED <<service, now, advances, failure_tracker, healing_actions, cfg, queue,
                   ticked, recorded, restarted>>

\* validate_file_permissions on a file, repair_validation_failures on its
\* result, validate_file_permissions again
CallRepairFile(f, env, commands) ==
    /\ last.op = "init"
    /\ \E result \in {validate_file_permissions(f)} :
          /\ ~result.passed
          /\ \E r \in {RepairFile(f, result, env, commands)} :
                last' = [NoOp EXCEPT !.op = "repair_file", !.input = f, !.env = env,
                                     !.ret = commands, !.result = result,
                                     !.status = r.status,
                                     !.after = validate_file_permissions(r.file)]
    /\ UNCHANGED <<service, now, advances, failure_tracker, healing_actions, cfg, queue,
                   ticked, recorded, restarted>>

\* the bound on the length of a list handed to repair_validation_failures
MaxResults == 3

\* results of each kind repair_validation_failures tells apart: passed;
\* failing and not auto-fixable; failing with a generator tag, with a tag
\* called with arguments, with a tag called without the argument it needs,
\* with a tag the table lacks
ResultSamples ==
    {Passed("env"),
     validate_database_connection(FALSE),
     validate_secret_key([secret_len |-> 0]),
     validate_environment_variables(WithoutVars(GeneratedConfig, RedisVars)),
     validate_encryption_keys("bad_key"),
     validate_encryption_keys("missing_field"),
     ValidationResult("exists", FALSE, "error", TRUE, "create_sysreptor_config", {})}

ResultLists == UNION { [1..n -> ResultSamples] : n \in 0..MaxResults }

\* repair_validation_failures on a list of results; env says whether the
\* template of app.env is there
CallRepairValidationResults(validation_results, env) ==
    /\ last.op = "init"
    /\ \E r \in {repair_validation_failures(validation_results, cfg, env)} :
          /\ cfg' = r.cfg
          /\ last' = [NoOp EXCEPT !.op = "repair_results", !.input = validation_results,
                                  !.env = env, !.summary = r.summary]
    /\ UNCHANGED <<service, now, advances, failure_tracker, healing_actions, queue,
                   ticked, recorded, restarted>>

ValidatorNext ==
    \/ \E value \in Base64Values : CallValidateBase64Encoding(value)
    \/ \E json_str \in JsonTexts : \E required_keys \in SUBSET JsonKeys :
          CallValidateJsonStructure(json_str, required_keys)
    \/ \E encryption_keys_str \in EncryptionKeysTexts :
          CallValidateEncryptionKeys(encryption_keys_str)
    \/ \E dependency \in {"database", "redis"} : \E reachable \in BOOLEAN :
          CallValidateConnection(dependency, reachable)
    \/ \E f \in FileTargets : \E env \in [db : {TRUE}, redis : {TRUE}, template : BOOLEAN] :
          \E commands \in BOOLEAN : CallRepairFile(f, env, commands)
    \/ \E validation_results \in ResultLists :
       \E env \in [db : {TRUE}, redis : {TRUE}, template : BOOLEAN] :
          CallRepairValidationResults(validation_results, env)

ValidatorSpec == TrackerInit /\ [][ValidatorNext]_vars

(***************************************************************************)
(* The presence check of the required variables and the repair it asks    *)
(* for, applied in rounds to an app.env in which every required variable  *)
(* is missing, blank or set (PresenceSpec)                                 *)
(***************************************************************************)
\* the bound on the number of validate-repair rounds
MaxRounds == 3

StatusConfig(status) ==
    [GeneratedConfig EXCEPT
       !.vars = status,
       !.lines = [v \in RequiredVars |-> IF status[v] = "missing" THEN 0 ELSE 1],
       !.value = [v \in RequiredVars |-> IF status[v] = "set" THEN default_values[v] ELSE ""],
       !.secret_len = IF status["SECRET_KEY"] = "set" THEN GeneratedSecretKeyLen ELSE 0]

PresenceConfigs ==
    { StatusConfig(status) : status \in [RequiredVars -> {"missing", "empty", "set"}] }

PresenceInit ==
    /\ now = 0
    /\ advances = 0
    /\ failure_tracker = NewTracker
    /\ healing_actions = 0
    /\ cfg \in PresenceConfigs
    /\ queue = << >>
    /\ ticked = FALSE
    /\ recorded = EmptyDict
    /\ restarted = [c \in AllContainers |-> 0]
    /\ service = NewService
    /\ last = NoOp

\* validate_environment_variables on the file, repair_validation_failures
\* on its failing result, validate_environment_variables again
PresenceRound ==
    /\ last.count < MaxRounds
    /\ \E result \in {validate_environment_variables(cfg)} :
          /\ ~result.passed
          /\ \E r \in {repair_validation_failures(<< result >>, cfg, NoEnv)} :
                /\ cfg' = r.cfg
                /\ last' = [NoOp EXCEPT !.op = "presence_round",
                                        !.count = last.count + 1,
                                        !.result = result,
                                        !.summary = r.summary,
                                        !.after = validate_environment_variables(r.cfg)]
    /\ UNCHANGED <<service, now, advances, failure_tracker, healing_actions, queue, ticked,
                   recorded, restarted>>

PresenceNext == PresenceRound

PresenceSpec == PresenceInit /\ [][PresenceNext]_vars

(***************************************************************************)
(* The two repairs that edit app.env in place, each called once on a file  *)
(* given line by line (EnvFileSpec).  cfg is the file at config_path as    *)
(* EnvFile describes it; last.input is its content before the call.        *)
(***************************************************************************)
EnvFileInit ==
    /\ now = 0
    /\ advances = 0
    /\ failure_tracker = NewTracker
    /\ healing_actions = 0
    /\ cfg \in EnvFiles
    /\ queue = << >>
    /\ ticked = FALSE
    /\ recorded = EmptyDict
    /\ restarted = [c \in AllContainers |-> 0]
    /\ service = NewService
    /\ last = NoOp

CallAddMissingEnvVars(missing_vars) ==
    /\ last.op = "init"
    /\ \E r \in {existing_content(cfg, missing_vars)} :
          /\ cfg' = r.file
          /\ last' = [NoOp EXCEPT !.op = "add_missing_env_vars", !.ret = r.ok,
                                  !.names = Elements(missing_vars),
                                  !.input = cfg.content]
    /\ UNCHANGED <<service, now, advances, failure_tracker, healing_actions, queue, ticked,
                   recorded, restarted>>

CallPopulateEmptyEnvVars(empty_vars) ==
    /\ last.op = "init"
    /\ \E r \in {updated_lines(cfg, empty_vars)} :
          /\ cfg' = r.file
          /\ last' = [NoOp EXCEPT !.op = "populate_empty_env_vars", !.ret = r.ok,
                                  !.names = Elements(empty_vars),
                                  !.input = cfg.content]
    /\ UNCHANGED <<service, now, advances, failure_tracker, healing_actions, queue, ticked,
                   recorded, restarted>>

EnvFileNext ==
    \/ \E missing_vars \in VarLists : CallAddMissingEnvVars(missing_vars)
    \/ \E empty_vars \in VarLists : CallPopulateEmptyEnvVars(empty_vars)

EnvFileSpec == EnvFileInit /\ [][EnvFileNext]_vars

(***************************************************************************)
(* The main loop of RTHealerService.run with the health endpoint answering *)
(* beside it (RunSpec): while self.running, schedule.run_pending() runs    *)
(* the jobs that are due, time.sleep(1) follows and last_check_time is     *)
(* set.  KeyboardInterrupt reaches the main thread wherever it is.         *)
(***************************************************************************)
\* the bound on the number of iterations of the main loop
MaxLoops == 2

\* how long the process is away in time.sleep(1): a second, or longer when
\* it is not scheduled
RunClockSteps == {1, 30, 21600}

Due(j) == service.next_run[j] <= now

\* schedule.run_pending() starts a job that is due, the earliest first
StartJob(j) ==
    /\ service.running
    /\ service.job = "none"
    /\ Due(j)
    /\ \A k \in Jobs : Due(k) => service.next_run[j] <= service.next_run[k]
    /\ service' = [service EXCEPT !.job = j, !.started[j] = @ + 1]
    /\ last' = [NoOp EXCEPT !.op = "start_job", !.c = j, !.t = now]
    /\ UNCHANGED <<now, advances, failure_tracker, healing_actions, cfg, queue,
                   ticked, recorded, restarted>>

\* what a job can add to healing_actions: _restart_container adds one for a
\* restart it issued (healer.py:455), _validate_configurations the number of
\* successful repairs of a cycle that succeeded (healer.py:560)
Counted(j) ==
    IF j \in {"monitor_containers", "validate_configurations"} THEN {0, 1} ELSE {0}

\* the job returns; a restart takes the 10 seconds _restart_container waits
FinishJob(n) ==
    /\ service.job # "none"
    /\ n \in Counted(service.job)
    /\ \E restart \in {n = 1 /\ service.job = "monitor_containers"} :
       \E t \in {IF restart THEN now + StabilizeSeconds ELSE now} :
          /\ now' = t
          /\ healing_actions' = healing_actions + n
          /\ service' = [service EXCEPT
                           !.job = "none",
                           !.next_run[service.job] = t + JobPeriod[service.job],
                           !.restarts = IF restart THEN @ + 1 ELSE @,
                           !.repairs = IF n = 1 /\ ~restart THEN @ + 1 ELSE @]
          /\ last' = [NoOp EXCEPT !.op = "finish_job", !.c = service.job, !.t = t,
                                  !.count = n, !.issued = restart]
    /\ UNCHANGED <<advances, failure_tracker, cfg, queue, ticked, recorded, restarted>>

\* run_pending() has returned: time.sleep(1), self.last_check_time = now
Sleep(d) ==
    /\ service.running
    /\ service.job = "none"
    /\ \A j \in Jobs : ~Due(j)
    /\ service.loops < MaxLoops
    /\ now' = now + d
    /\ service' = [service EXCEPT !.last_check_time = now + d, !.loops = @ + 1]
    /\ last' = [NoOp EXCEPT !.op = "sleep", !.t = now + d]
    /\ UNCHANGED <<advances, failure_tracker, healing_actions, cfg, queue, ticked,
                   recorded, restarted>>

\* KeyboardInterrupt (healer.py:685-687): it is raised where the main thread
\* is, passes the 'except Exception' handlers of a job in progress and ends
\* the loop; self.running = False
KeyboardInterrupt ==
    /\ service.running
    /\ service' = [service EXCEPT !.running = FALSE, !.job = "none"]
    /\ last' = [NoOp EXCEPT !.op = "shutdown", !.c = service.job, !.t = now]
    /\ UNCHANGED <<now, advances, failure_tracker, healing_actions, cfg, queue,
                   ticked, recorded, restarted>>

\* RTHealerService.get_status
get_status ==
    [status |-> IF service.running THEN "running" ELSE "stopped",
     healing_actions |-> healing_actions,
     last_check |-> service.last_check_time,
     uptime |-> now - service.last_check_time]

\* GET /health answered by the HTTP thread
GetHealth ==
    /\ service' = [service EXCEPT !.reported = get_status, !.queries = 1]
    /\ last' = [NoOp EXCEPT !.op = "get_status", !.t = now,
                            !.count = get_status.healing_actions]
    /\ UNCHANGED <<now, advances, failure_tracker, healing_actions, cfg, queue,
                   ticked, recorded, restarted>>

RunNext ==
    \/ \E j \in Jobs : StartJob(j)
    \/ \E n \in {0, 1} : FinishJob(n)
    \/ \E d \in RunClockSteps : Sleep(d)
    \/ KeyboardInterrupt
    \/ GetHealth

RunSpec == TrackerInit /\ [][RunNext]_vars

(***************************************************************************)
(* Properties                                                              *)
(***************************************************************************)
LastRestartTime(c) == failure_tracker.last_restart_time[c]
EverRestarted(c)   == c \in DOMAIN failure_tracker.last_restart_time
Elapsed(c)         == now - LastRestartTime(c)
Monitored          == {ContainerList[i] : i \in DOMAIN ContainerList} \ {"rtpi-healer"}

\* the backoff state of one container
BackoffState(c) ==
    <<DictGet(failure_tracker.last_restart_time, c, -1), Multiplier(c), RestartCounter(c)>>

\* C1: a monitoring step issues the runtime restart for a container only if
\* should_restart holds for it when the step starts; when the container is
\* inside its backoff period, _restart_container returns false without
\* restarting, without pre-start validation and without changing
\* last_restart_time, the multiplier, the restart counter, healing_actions
\* or the configuration file.
C1_RestartOnlyThroughGate ==
    [][ \A c \in Monitored :
          (last'.op = "monitor" /\ last'.c = c) =>
             LET in_backoff == EverRestarted(c)
                                 /\ Elapsed(c) < Min(300, Multiplier(c) * 30)
             IN /\ last'.issued => ~in_backoff
                /\ (last'.restart_called /\ ~last'.raised /\ in_backoff) =>
                      /\ ~last'.ret
                      /\ ~last'.issued
                      /\ ~last'.validated
                      /\ BackoffState(c)' = BackoffState(c)
                      /\ healing_actions' = healing_actions
                      /\ cfg' = cfg
                      /\ now' = now ]_vars

\* C1 witness: _restart_container was called for a container in backoff
C1_Witness ==
    /\ last.op = "monitor"
    /\ last.restart_called
    /\ last.gate = "backoff"
    /\ EverRestarted(last.c)
    /\ last.t - LastRestartTime(last.c) < Min(300, Multiplier(last.c) * 30)

\* C2: should_restart is true while no restart was recorded for the
\* container, false right after record_restart, and with a recorded restart
\* true exactly when the time since last_restart_time is at least
\* min(300, multiplier * 30).
C2_ShouldRestart ==
    \A c \in TrackedContainers :
       LET sr == should_restart(failure_tracker, c, now)
       IN /\ restarted[c] = 0 => sr
          /\ (last.op = "record_restart" /\ last.c = c) => ~sr
          /\ restarted[c] > 0 =>
                (sr <=> Elapsed(c) >= Min(300, Multiplier(c) * 30))
          /\ (last.op = "should_restart" /\ last.c = c) => (last.ret <=> sr)

\* C2 witness: should_restart answers true exactly at the end of the wait
C2_Witness ==
    /\ last.op = "should_restart"
    /\ last.ret
    /\ restarted[last.c] > 0
    /\ Elapsed(last.c) = Min(300, Multiplier(last.c) * 30)

\* C3: after k record_restart calls the multiplier is min(8, 2^k), the
\* restart counter is k, and last_restart_time is the time of the last call.
C3_RecordRestart ==
    /\ \A c \in TrackedContainers :
          /\ Multiplier(c) = Min(8, 2 ^ restarted[c])
          /\ RestartCounter(c) = restarted[c]
          /\ EverRestarted(c) <=> restarted[c] > 0
    /\ last.op = "record_restart" => LastRestartTime(last.c) = last.t

\* C3 witness: a record_restart call beyond the cap of the multiplier
C3_Witness ==
    /\ last.op = "record_restart"
    /\ restarted[last.c] >= 4
    /\ Multiplier(last.c) = 8

C5_Original ==
    \A c \in TrackedContainers :
       (EverRestarted(c) /\ Multiplier(c) = 8 /\ Elapsed(c) < 300)
          => ~should_restart(failure_tracker, c, now)

\* C5 amended: at the cap of the multiplier (8) should_restart is false
\* until 240 seconds have passed since the recorded restart and true from
\* then on; the first restart of a container is admitted at once.
C5_SaturatedWait ==
    \A c \in TrackedContainers :
       LET sr == should_restart(failure_tracker, c, now)
       IN /\ ~EverRestarted(c) => sr
          /\ (EverRestarted(c) /\ Multiplier(c) = 8) => (sr <=> Elapsed(c) >= 240)

\* C5 witness: at the cap, a restart is admitted 240 seconds after the last
C5_Witness ==
    /\ last.op = "should_restart"
    /\ last.ret
    /\ EverRestarted(last.c)
    /\ Multiplier(last.c) = 8
    /\ Elapsed(last.c) = 240

\* C6: when all record_failure calls for a key lie within a span shorter
\* than one hour, get_failure_count within that span is the number of calls.
C6_CountWithinHour ==
    \A c \in TrackedContainers, k \in FailureTypes :
       (History(c, k) # << >> /\ now - History(c, k)[1] < 3600) =>
          /\ get_failure_count(failure_tracker, c, k) = Len(History(c, k))
          /\ (last.op = "get_failure_count" /\ last.c = c /\ last.k = k)
                => last.count = Len(History(c, k))

\* C6 witness: three failures of one key in a span of 3599 seconds, counted
C6_Witness ==
    /\ last.op = "get_failure_count"
    /\ last.count >= 2
    /\ Len(History(last.c, last.k)) = last.count
    /\ now - History(last.c, last.k)[1] = 3599

\* C7 as stated: more than one hour after the last record_failure of a key
\* get_failure_count returns 0, and after a get_failure_count read no event
\* older than one hour is left in the ledger entry.
C7_Claim ==
    \A c \in TrackedContainers, k \in FailureTypes :
       /\ (History(c, k) # << >>
             /\ now - History(c, k)[Len(History(c, k))] > 3600)
            => get_failure_count(failure_tracker, c, k) = 0
       /\ (last.op = "get_failure_count" /\ last.c = c /\ last.k = k)
            => \A i \in 1..Len(Ledger(c, k)) : now - Ledger(c, k)[i] <= 3600

\* C8 as stated: record_failure at time t leaves the entry equal to the
\* earlier events that are at most one hour old at t, in order, followed by t.
C8_Claim ==
    [][ \A c \in TrackedContainers, k \in FailureTypes :
          (last'.op = "record_failure" /\ last'.c = c /\ last'.k = k) =>
             Ledger(c, k)' =
                Append(SelectSeq(Ledger(c, k), LAMBDA f : now - f <= 3600), now) ]_vars

\* C9 as stated: when pre-start validation of sysreptor-app found failing
\* results and the file still has a failing result after the repair pass,
\* the restart is not issued and record_restart is not called.
C9_Claim ==
    ( /\ last.op = "monitor"
      /\ last.c = "sysreptor-app"
      /\ last.validated
      /\ last.failing_before > 0
      /\ FailedResults(validate_sysreptor_configuration(cfg, last.env)) # << >> )
    => (~last.issued /\ ~last.recorded)

\* C10 as stated: record_restart is called, and the container counts as
\* healthy again, exactly when the restart was issued and the container is
\* running afterwards.
C10_Original ==
    last.op = "monitor" =>
       /\ last.recorded <=> (last.issued /\ last.running)
       /\ last.ret <=> (last.issued /\ last.running)

\* C10 amended: record_restart is called (once) exactly when the runtime
\* restart call was issued and returned without raising, also when the
\* container is not running afterwards; _restart_container reports success
\* exactly when, in addition, the container is running afterwards.
C10_RecordOnIssuedRestart ==
    [][ \A c \in Monitored :
          (last'.op = "monitor" /\ last'.c = c) =>
             LET returned == last'.issued /\ ~last'.raised
             IN /\ returned <=> RestartCounter(c)' = RestartCounter(c) + 1
                /\ ~returned => BackoffState(c)' = BackoffState(c)
                /\ returned => DictGet(failure_tracker.last_restart_time, c, -1)' = now
                /\ last'.ret <=> (returned /\ last'.running) ]_vars

\* C10 witness: the restart returned but the container is not running;
\* the restart was recorded and the call reported failure
C10_Witness ==
    /\ last.op = "monitor"
    /\ last.issued
    /\ ~last.raised
    /\ ~last.running
    /\ ~last.ret
    /\ last.recorded
    /\ LastRestartTime(last.c) = last.t

\* C11 as stated: a container observed unhealthy gets an 'unhealthy' failure
\* recorded and, when should_restart holds for it as the step starts and
\* pre-start validation succeeds, its restart is issued in that step, as for
\* a container flagged by the restart-loop signal.
C11_Claim ==
    [][ \A c \in Monitored :
          (last'.op = "monitor" /\ last'.c = c /\ last'.unhealthy) =>
             /\ Len(Ledger(c, "unhealthy"))' >= 1
             /\ ( /\ should_restart(failure_tracker, c, now)
                  /\ perform_prestart_validation(cfg, c, last'.env).ok )
                => last'.issued ]_vars

\* C12 as stated: a healing strategy is invoked in a monitoring step only
\* if should_restart held for the container as the step started; for a
\* flagged container in its backoff period no strategy is invoked.
C12_Claim ==
    [][ \A c \in Monitored :
          (last'.op = "monitor" /\ last'.c = c /\ (last'.loop \/ last'.unhealthy)) =>
             (~should_restart(failure_tracker, c, now) => last'.strategy_calls = 0) ]_vars

\* the failing checks of a comprehensive validation of the files cf
FailingChecks(cf, env) ==
    FailedResults(run_comprehensive_validation(cf, env).validation_results)

\* C13 as stated: the cycle reports success, and the program exits 0,
\* exactly when the first validation had no failing check or fewer checks
\* fail after the repair than before.
C13_Original ==
    last.op = "run_repair_cycle" =>
       LET improved == \/ last.cycle.pre_failed = 0
                       \/ last.cycle.post_failed < last.cycle.pre_failed
       IN /\ last.cycle.overall_success <=> improved
          /\ last.cycle.exit_code = 0 <=> improved

\* C13 amended: the cycle reports success, and the program exits 0 (else
\* 1), exactly when the first validation had no failing check or no check
\* fails in the validation that follows the repair; fewer failing checks
\* than before is not success.
C13_SuccessIffPostPasses ==
    last.op = "run_repair_cycle" =>
       /\ last.cycle.post_failed = Len(FailingChecks(cfg, last.env))
       /\ last.cycle.overall_success <=>
             (last.cycle.pre_failed = 0 \/ last.cycle.post_failed = 0)
       /\ last.cycle.exit_code = (IF last.cycle.overall_success THEN 0 ELSE 1)
       /\ ~last.cycle.repaired <=> last.cycle.pre_failed = 0

\* C13 witness: a cycle after which fewer checks fail than before, but
\* not none, and which does not report success
C13_Witness ==
    /\ last.op = "run_repair_cycle"
    /\ last.cycle.post_failed > 0
    /\ last.cycle.post_failed < last.cycle.pre_failed
    /\ ~last.cycle.overall_success
    /\ last.cycle.exit_code = 1

\* C14: when the only failing check is the unreachable database (not
\* auto-fixable), the cycle attempts no repair and leaves the files alone,
\* the validation after the repair still reports the failure, the number
\* of failing checks has not dropped, and the cycle does not report success.
C14_UnreachableDatabase ==
    [][ ( /\ last'.op = "run_repair_cycle"
          /\ Len(FailingChecks(cfg, last'.env)) = 1
          /\ FailingChecks(cfg, last'.env)[1].check = "database"
          /\ ~FailingChecks(cfg, last'.env)[1].auto_fixable )
        => /\ last'.summary.total_failures = 0
           /\ last'.summary.attempted_repairs = 0
           /\ cfg' = cfg
           /\ FailingChecks(cfg', last'.env) = FailingChecks(cfg, last'.env)
           /\ last'.cycle.pre_failed = 1
           /\ ~(last'.cycle.post_failed < last'.cycle.pre_failed)
           /\ ~last'.cycle.overall_success
           /\ last'.cycle.exit_code = 1 ]_vars

\* C14 witness: a cycle that found only the database unreachable
C14_Witness ==
    /\ last.op = "run_repair_cycle"
    /\ ~last.env.db
    /\ last.cycle.repaired
    /\ last.cycle.pre_failed = 1
    /\ Len(FailingChecks(cfg, last.env)) = 1
    /\ FailingChecks(cfg, last.env)[1].check = "database"

\* C15: a repair cycle on files for which every check passes performs no
\* repair: it writes no file, makes no backup, leaves the list of backups
\* as it is and reports success; so does a second run right after it.
C15_ValidConfigUntouched ==
    [][ ( /\ last'.op = "run_repair_cycle"
          /\ FailingChecks(cfg, last'.env) = << >> )
        => /\ cfg' = cfg
           /\ ~last'.cycle.repaired
           /\ last'.summary = NewRepairSummary
           /\ last'.cycle.overall_success
           /\ last'.cycle.exit_code = 0 ]_vars

\* C15 witness: the second of two cycles run in succession, neither of
\* which found a failing check
C15_Witness ==
    /\ last.op = "run_repair_cycle"
    /\ last.cycle.successive = 2
    /\ ~last.cycle.repaired
    /\ last.cycle.overall_success
    /\ cfg.writes = 0
    /\ cfg.backups = 0

\* what a repair function leaves behind, its writes not counted
Content(cf) == [cf EXCEPT !.writes = 0]

\* C16 as stated: a repair function called a second time with the same
\* arguments, after it succeeded, succeeds again and changes nothing: the
\* content of the file, the number of lines that assign a variable, the
\* generated keys and the backups stay as they are.
C16_Claim ==
    [][ ( /\ last.op = "repair_action" /\ last.ret
          /\ last'.op = "repair_action"
          /\ last'.tag = last.tag /\ last'.names = last.names )
        => (last'.ret /\ Content(cfg') = Content(cfg)) ]_vars

\* C17 as stated: a repair function that writes to a file that exists
\* makes a backup copy of it first.
C17_Claim ==
    [][ ( /\ last'.op = "repair_action"
          /\ IF last'.tag = "initialize_empire_db"
             THEN cfg.empire_db # "missing" ELSE cfg.exists
          /\ cfg'.writes > cfg.writes )
        => cfg'.backups > cfg.backups ]_vars

\* the results repair_validation_failures considers, and those with a
\* repair action
Considered(results) ==
    SelectSeq(results, LAMBDA r : ~r.passed /\ r.auto_fixable /\ r.fix_action # "none")

Attempted(results) ==
    SelectSeq(Considered(results), LAMBDA r :
       r.fix_action \in
          {"generate_base64_key", "generate_encryption_keys", "generate_secret_key",
           "create_sysreptor_config", "fix_permissions", "create_from_template",
           "add_missing_env_vars", "populate_empty_env_vars", "repair_config_syntax",
           "fix_json_structure", "regenerate_encryption_key", "initialize_empire_db"})

\* C18: repair_validation_failures counts in total_failures exactly the
\* results that fail, are auto-fixable and carry a fix tag, and attempts a
\* repair (attempted_repairs, one entry of repair_details) exactly for those
\* whose tag is a key of the action table.
C18_ConsideredAndAttempted ==
    [][ last'.op = "repair_validation_failures" =>
          LET results == validate_sysreptor_configuration(cfg, last'.env)
          IN /\ last'.summary.total_failures = Len(Considered(results))
             /\ last'.summary.attempted_repairs = Len(Attempted(results))
             /\ Len(last'.summary.repair_details) = Len(Attempted(results))
             /\ Len(Attempted(results)) = 0 => cfg' = cfg ]_vars

\* C18 witness: a batch with two considered failures, one of them with a
\* tag that the action table does not have
C18_Witness ==
    /\ last.op = "repair_validation_failures"
    /\ last.summary.total_failures = 2
    /\ last.summary.attempted_repairs = 1

\* the entries of repair_details that are no success
Unsuccessful(details) == SelectSeq(details, LAMBDA d : d.status # "SUCCESS")

\* C19 as stated: each considered failure whose tag is not in the action
\* table adds one to failed_repairs.
C19_Original ==
    last.op = "repair_validation_failures" =>
       last.summary.failed_repairs =
          Len(Unsuccessful(last.summary.repair_details))
          + (last.summary.total_failures - last.summary.attempted_repairs)

\* C19 amended: a considered failure whose tag is not in the action table
\* adds one to total_failures only: failed_repairs counts the attempted
\* repairs that did not succeed, attempted = successful + failed, and the
\* results after it are still processed (each with a known tag has its
\* entry in repair_details, in order).
C19_UnknownTagCountedOnly ==
    [][ last'.op = "repair_validation_failures" =>
          LET results == validate_sysreptor_configuration(cfg, last'.env)
              details == last'.summary.repair_details
          IN /\ last'.summary.failed_repairs = Len(Unsuccessful(details))
             /\ last'.summary.attempted_repairs =
                   last'.summary.successful_repairs + last'.summary.failed_repairs
             /\ last'.summary.total_failures - last'.summary.attempted_repairs =
                   Len(SelectSeq(Considered(results),
                                 LAMBDA r : r.fix_action \notin RepairActionTable))
             /\ [i \in DOMAIN details |-> details[i].action] =
                   [i \in DOMAIN Attempted(results) |-> Attempted(results)[i].fix_action]
       ]_vars

\* C19 witness: fix_encryption_key_structure, which the table does not
\* have, followed in the batch by a repair that was attempted
C19_Witness ==
    /\ last.op = "repair_validation_failures"
    /\ last.summary.total_failures = 2
    /\ last.summary.attempted_repairs = 1
    /\ last.summary.failed_repairs = 1
    /\ last.summary.repair_details[1].action = "repair_config_syntax"

\* C20: for an app.env without REDIS_HOST and REDIS_PASSWORD, its other
\* required variables present, the presence validation fails with tag
\* add_missing_env_vars naming the two; repair_validation_failures appends
\* both with their defaults and reports one successful repair; the
\* presence validation of the file then passes.
C20_MissingRedisVars ==
    [][ ( /\ last'.op = "repair_validation_failures"
          /\ cfg.exists
          /\ {v \in RequiredVars : cfg.vars[v] = "missing"} = RedisVars
          /\ {v \in RequiredVars : cfg.vars[v] = "empty"} = {} )
        => LET presence == validate_environment_variables(cfg)
               alone    == repair_validation_failures(<< presence >>, cfg, last'.env)
           IN /\ ~presence.passed
              /\ presence.fix_action = "add_missing_env_vars"
              /\ presence.names = RedisVars
              /\ Len(FailedResults(<< presence >>)) = 1
              /\ alone.summary.successful_repairs = 1
              /\ alone.cfg = cfg'
              /\ last'.summary.successful_repairs = 1
              /\ last'.summary.repair_details[1] =
                    [action |-> "add_missing_env_vars", status |-> "SUCCESS"]
              /\ cfg'.value["REDIS_HOST"] = "sysreptor-redis"
              /\ cfg'.value["REDIS_PASSWORD"] = "sysreptorredispassword"
              /\ \A v \in RequiredVars :
                    cfg'.lines[v] = cfg.lines[v] + (IF v \in RedisVars THEN 1 ELSE 0)
              /\ \A v \in RequiredVars \ RedisVars : cfg'.value[v] = cfg.value[v]
              /\ validate_environment_variables(cfg').passed ]_vars

\* C20 witness: the two variables were appended to a file that lacked them
C20_Witness ==
    /\ last.op = "repair_validation_failures"
    /\ last.summary.successful_repairs = 1
    /\ last.summary.repair_details[1].action = "add_missing_env_vars"
    /\ cfg.lines["REDIS_HOST"] = 1
    /\ cfg.value["REDIS_HOST"] = "sysreptor-redis"
    /\ cfg.value["REDIS_PASSWORD"] = "sysreptorredispassword"
    /\ cfg.backups = 1
    /\ cfg.writes = 1

\* C21 as stated: for an ENCRYPTION_KEYS entry whose key is not valid
\* base64 the validator reports a failing, auto-fixable encryption-key
\* result; repair_validation_failures on that result succeeds and writes a
\* new key and id to the file; validating again reports no encryption-key
\* failure.
C21_Claim ==
    [][ ( /\ last'.op = "repair_validation_failures"
          /\ cfg.exists
          /\ cfg.enc = "bad_key" )
        => LET issue == validate_encryption_keys(cfg.enc)
               alone == repair_validation_failures(<< issue >>, cfg, last'.env)
           IN /\ ~issue.passed /\ issue.auto_fixable
              /\ alone.summary.successful_repairs = 1
              /\ alone.cfg.enc = "valid"
              /\ alone.cfg.keys_generated = cfg.keys_generated + 1
              /\ cfg'.enc = "valid"
              /\ validate_encryption_keys(cfg'.enc).passed ]_vars

\* C22 as stated: when the file validate_file_permissions is asked about
\* does not exist (its template does, and chown and chmod succeed), the
\* repair triggered by the validator's result creates it from the template
\* and sets owner and mode, and validate_file_permissions then passes.
C22_Claim ==
    ( /\ last.op = "repair_file"
      /\ ~last.input.exists
      /\ last.input.sysreptor_env
      /\ last.env.template
      /\ last.ret )
    => /\ last.status = "SUCCESS"
       /\ last.after.passed

\* C23 as stated: repair_validation_failures given the failures of a file
\* F other than app.env repairs F, so that validating F again finds
\* strictly fewer failing results than before (F of the test: a short
\* SECRET_KEY, no REDIS_HOST, no REDIS_PASSWORD).
C23_Claim ==
    last.op = "test_auto_repair" =>
       /\ last.count < last.failing_before
       /\ last.ret

\* C24 as stated: every check of the validator returns a ValidationResult
\* and never raises, whatever its input: text that is no base64, None,
\* unparsable JSON, JSON of a number, null or string while required keys
\* are asked for, an unreachable host.
C24_Claim ==
    last.op \in {"validate_base64_encoding", "validate_json_structure",
                 "validate_encryption_keys", "validate_connection"}
    => ~last.raised

\* the checks whose result is in a list of results
ChecksRun(results) == { results[i].check : i \in DOMAIN results }

\* C25 as stated: in a validation batch a check that fails or hits an
\* internal error (a DATABASE_PORT that is no number) does not keep the
\* checks after it from running: for an app.env with all its variables the
\* Redis, Kasm and Empire checks produce their result, and the summary has
\* its total, passed, failed and auto-fixable counts.
C25_Claim ==
    [][ ( /\ last'.op = "run_repair_cycle"
          /\ cfg.exists
          /\ Present(cfg, RequiredVars)
          /\ cfg.redis_port_numeric )
        => LET summary == run_comprehensive_validation(cfg, last'.env)
           IN /\ {"redis", "kasm"} \subseteq ChecksRun(summary.validation_results)
              /\ ChecksRun(summary.validation_results)
                    \cap {"empire_db", "empire_permissions"} # {}
              /\ summary.total_checks = summary.passed_checks + summary.failed_checks
              /\ summary.auto_fixable_failures <= summary.failed_checks
              /\ last'.cycle.pre_failed = summary.failed_checks ]_vars

\* a text in base64: only alphabet characters, in groups of four, the last
\* group completed by '=' signs (a single character cannot end a text)
WellFormedBase64(value) ==
    /\ value.kind = "str"
    /\ value.clean
    /\ \/ value.chars % 4 = 0
       \/ value.chars % 4 \in {2, 3} /\ value.padded

\* three bytes for every four characters, rounded down
DecodedBytes(value) == (3 * value.chars) \div 4

C27_Claim ==
    \A case \in Base64TestCases :
       (last.op = "validate_base64_encoding" /\ last.input = case.value)
       => last.result.passed = case.should_pass

\* what is wrong with one entry of the key list
Defects(e) ==
    (IF e.type # "object" \/ ~(RequiredFields \subseteq e.fields)
     THEN {"missing_field"} ELSE {})
    \cup (IF e.type = "object" /\ "key" \in e.fields
             /\ ~(WellFormedBase64(e.key) /\ DecodedBytes(e.key) >= 16)
          THEN {"bad_key"} ELSE {})
    \cup (IF e.type = "object" /\ "cipher" \in e.fields /\ e.cipher # "AES-GCM"
          THEN {"bad_cipher"} ELSE {})

DefectsOf(entries) == UNION { Defects(entries[i]) : i \in DOMAIN entries }

\* C28: validate_encryption_keys passes if and only if the value parses to
\* a non-empty list in which every entry has id, key, cipher and revoked, a
\* key of at least 16 decoded bytes and cipher AES-GCM.  Unparsable JSON, an
\* empty list, and a list whose only defect is a missing field or a bad key
\* give a failing auto-fixable result of severity error; a list whose only
\* defect is an unsupported cipher gives a warning that is not auto-fixable.
\* The model of app.env keeps one text of each of these shapes.
C28_EncryptionKeysPassIff ==
    /\ last.op = "validate_encryption_keys" =>
         /\ last.result.passed <=>
               /\ last.input.kind = "json"
               /\ last.input.type = "array"
               /\ last.input.entries # << >>
               /\ DefectsOf(last.input.entries) = {}
         /\ ( \/ last.input.kind # "json"
              \/ last.input.type # "array"
              \/ last.input.entries = << >>
              \/ DefectsOf(last.input.entries) \in {{"missing_field"}, {"bad_key"}} )
            => /\ ~last.result.passed
               /\ last.result.auto_fixable
               /\ last.result.severity = "error"
         /\ ( /\ last.input.kind = "json"
              /\ last.input.type = "array"
              /\ DefectsOf(last.input.entries) = {"bad_cipher"} )
            => /\ ~last.result.passed
               /\ ~last.result.auto_fixable
               /\ last.result.severity = "warning"
    /\ \A enc \in {"valid", "bad_json", "empty_list", "missing_field", "bad_key", "bad_cipher"} :
          validate_encryption_keys(enc) = validate_encryption_keys_str(EncryptionKeysOf(enc))

\* C28 witness: a list of a valid entry and an entry with another cipher
C28_Witness ==
    /\ last.op = "validate_encryption_keys"
    /\ last.input.kind = "json"
    /\ Len(last.input.entries) = 2
    /\ Defects(last.input.entries[1]) = {}
    /\ Defects(last.input.entries[2]) = {"bad_cipher"}
    /\ last.result.severity = "warning"
    /\ ~last.result.auto_fixable

\* the failing results of the two connection checks in a list of results
ConnectionFailures(results) ==
    SelectSeq(results, LAMBDA r : r.check \in {"database", "redis"} /\ ~r.passed)

\* C29: a database or cache that does not answer gives a failing result
\* with auto_fixable false and no fix tag; repair_validation_failures calls
\* no repair action for such a result and counts nothing for it: the
\* summary and the file are those of the batch without these results.
C29_ConnectionFailureNotRepaired ==
    [][ last'.op = "repair_validation_failures" =>
          LET results == validate_sysreptor_configuration(cfg, last'.env)
              others  == SelectSeq(results, LAMBDA r :
                            ~(r.check \in {"database", "redis"} /\ ~r.passed))
          IN /\ ~validate_database_connection(FALSE).passed
             /\ ~validate_redis_connection(FALSE).passed
             /\ \A i \in DOMAIN ConnectionFailures(results) :
                   /\ ~ConnectionFailures(results)[i].auto_fixable
                   /\ ConnectionFailures(results)[i].fix_action = "none"
             /\ repair_validation_failures(ConnectionFailures(results), cfg, last'.env)
                   = [summary |-> NewRepairSummary, cfg |-> cfg]
             /\ repair_validation_failures(others, cfg, last'.env)
                   = [summary |-> last'.summary, cfg |-> cfg']
             /\ \A i \in DOMAIN last'.summary.repair_details :
                   last'.summary.repair_details[i].action # "none" ]_vars

\* C29 witness: repair_validation_failures ran on a batch in which both
\* connection checks failed, and counted nothing
C29_Witness ==
    /\ last.op = "repair_validation_failures"
    /\ ~last.env.db
    /\ ~last.env.redis
    /\ Len(ConnectionFailures(validate_sysreptor_configuration(cfg, last.env))) = 2
    /\ last.summary = NewRepairSummary

\* the result the presence check is to give for the file cf
PresenceResult(cf) ==
    IF \E v \in RequiredVars : cf.vars[v] = "missing"
    THEN ValidationResult("env", FALSE, "error", TRUE, "add_missing_env_vars",
                          {v \in RequiredVars : cf.vars[v] = "missing"})
    ELSE IF \E v \in RequiredVars : cf.vars[v] = "empty"
    THEN ValidationResult("env", FALSE, "error", TRUE, "populate_empty_env_vars",
                          {v \in RequiredVars : cf.vars[v] = "empty"})
    ELSE Passed("env")

\* C30: validate_environment_variables names every absent required
\* variable under the tag add_missing_env_vars when one is absent, else
\* every blank one under populate_empty_env_vars, else passes; applying the
\* repair it asks for after each validation, the presence check passes
\* after at most two validate-repair rounds.
C30_PresenceInTwoRounds ==
    [][ last'.op = "presence_round" =>
          /\ last'.result = PresenceResult(cfg)
          /\ last'.after = PresenceResult(cfg')
          /\ last'.summary.successful_repairs = 1
          /\ last'.result.fix_action = "populate_empty_env_vars" => last'.after.passed
          /\ last'.count <= 2
          /\ last'.count = 2 => last'.after.passed ]_vars

\* C30 witness: the second round, which filled the blank variables after
\* the first had added the absent ones
C30_Witness ==
    /\ last.op = "presence_round"
    /\ last.count = 2
    /\ last.result.fix_action = "populate_empty_env_vars"
    /\ last.after.passed
    /\ cfg.backups = 2

\* what a line says, whether or not it is terminated
LineText(line) == [line EXCEPT !.nl = TRUE]

\* the line assigns one of the listed variables a blank value
BlankTarget(line, names) ==
    line.kind = "assign" /\ line.key \in names /\ BlankValue(line.value)

\* C31: the env-var repairs leave every line that does not define a targeted
\* variable unchanged and in the same position.  _add_missing_env_vars only
\* appends after the existing content (a last line without '\n' gets its
\* '\n', its text stays); _populate_empty_env_vars keeps the number of lines
\* and rewrites only assignments of listed variables whose value is blank:
\* comments, blank lines, text, non-blank values and unlisted variables stay
\* as they were.
C31_EnvVarRepairFrame ==
    [][ /\ last'.op = "add_missing_env_vars" =>
             /\ Len(cfg'.content) >= Len(cfg.content)
             /\ \A i \in DOMAIN cfg.content :
                   LineText(cfg'.content[i]) = LineText(cfg.content[i])
        /\ last'.op = "populate_empty_env_vars" =>
             /\ Len(cfg'.content) = Len(cfg.content)
             /\ \A i \in DOMAIN cfg.content :
                   ~BlankTarget(cfg.content[i], last'.names)
                      => cfg'.content[i] = cfg.content[i] ]_vars

\* a file of two lines after _populate_empty_env_vars rewrote one of them and
\* kept a non-blank line of a listed variable
C31_Witness ==
    /\ last.op = "populate_empty_env_vars"
    /\ last.ret
    /\ \E i, j \in DOMAIN last.input :
          /\ cfg.content[i] # last.input[i]
          /\ last.input[j].kind = "assign"
          /\ last.input[j].key \in last.names
          /\ ~BlankValue(last.input[j].value)
          /\ cfg.content[j] = last.input[j]

\* the configuration the claim calls known-good: the file exists, every
\* required variable is set, SECRET_KEY has 50 characters or more, and
\* ENCRYPTION_KEYS is a valid list of AES-GCM keys
KnownGood(cf) ==
    /\ cf.exists
    /\ \A v \in RequiredVars : cf.vars[v] = "set"
    /\ cf.secret_len >= MinSecretKeyLen
    /\ cf.enc = "valid"

FreshlyCreated ==
    last.op = "repair_action" /\ last.tag = "create_sysreptor_config" /\ last.ret

\* C32 as stated: validating a known-good SysReptor configuration yields a
\* result list with zero failing results.
C32_Original ==
    (last.op = "validate_sysreptor_configuration" /\ KnownGood(cfg))
       => last.count = 0

\* C32: validating a known-good SysReptor configuration whose port and index
\* values are integers, at a time when the database and Redis answer, yields
\* zero failing results; a file freshly written by _create_sysreptor_config is
\* such a configuration.
C32_KnownGoodPasses ==
    /\ ( /\ last.op = "validate_sysreptor_configuration"
         /\ KnownGood(cfg)
         /\ cfg.db_port_numeric /\ cfg.redis_port_numeric
         /\ last.env.db /\ last.env.redis )
          => last.count = 0
    /\ FreshlyCreated
          => /\ KnownGood(cfg)
             /\ cfg.db_port_numeric /\ cfg.redis_port_numeric
             /\ \A env \in Envs :
                   (env.db /\ env.redis)
                      => FailedResults(validate_sysreptor_configuration(cfg, env)) = << >>

\* the validation of a file that _create_sysreptor_config has just written
\* where there was none, with the database and Redis answering
C32_Witness ==
    /\ last.op = "validate_sysreptor_configuration"
    /\ last.env.db /\ last.env.redis
    /\ KnownGood(cfg)
    /\ cfg.keys_generated = 1 /\ cfg.writes = 1 /\ cfg.backups = 0
    /\ last.count = 0

\* C33 as stated: once the loop has seen the shutdown signal (running is
\* false) no monitoring, configuration-validation, log-cleanup or backup tick
\* is started, and a tick that was in progress is allowed to finish: a tick
\* ends only by returning.
C33_Claim ==
    [][ /\ ~service.running => service'.started = service.started
        /\ (service.job # "none" /\ service'.job = "none")
              => last'.op = "finish_job" ]_vars

\* the events the tracker T holds for container e and failure type k
Events(T, e, k) == DictGet(T.failures, FailureKey(e, k), << >>)

\* C34: failure and backoff state are isolated per entity.  A monitoring step
\* for container e, with the record_failure, healing strategy, record_restart
\* it performs, leaves for every other monitored container the failure
\* events and counts of both types, last_restart_time, the multiplier, the
\* restart counter and the value of should_restart as they were; for e
\* itself it leaves the events of a failure type it did not record as they
\* were.
C34_EntityIsolation ==
    [][ last'.op = "monitor" =>
          /\ \A e \in Monitored \ {last'.c} :
                /\ \A k \in FailureTypes :
                      /\ Events(failure_tracker', e, k) = Events(failure_tracker, e, k)
                      /\ get_failure_count(failure_tracker', e, k)
                            = get_failure_count(failure_tracker, e, k)
                /\ DictGet(failure_tracker'.last_restart_time, e, -1)
                      = DictGet(failure_tracker.last_restart_time, e, -1)
                /\ DictGet(failure_tracker'.backoff_multipliers, e, 1)
                      = DictGet(failure_tracker.backoff_multipliers, e, 1)
                /\ DictGet(failure_tracker'.restart_counts, e, 0)
                      = DictGet(failure_tracker.restart_counts, e, 0)
                /\ should_restart(failure_tracker', e, now')
                      = should_restart(failure_tracker, e, now')
          /\ ~last'.loop =>
                Events(failure_tracker', last'.c, "restart_loop")
                   = Events(failure_tracker, last'.c, "restart_loop")
          /\ ~last'.unhealthy =>
                Events(failure_tracker', last'.c, "unhealthy")
                   = Events(failure_tracker, last'.c, "unhealthy") ]_vars

\* a monitoring step that recorded a failure and a restart for one container
\* when the other tracked container had a failure and a restart on record
C34_Witness ==
    /\ last.op = "monitor"
    /\ last.loop
    /\ last.recorded
    /\ \E e \in TrackedContainers \ {last.c} :
          /\ EverRestarted(e)
          /\ Multiplier(e) > 1
          /\ Len(Ledger(e, "restart_loop")) >= 1

\* the fix tags of the failing results of a list
FailingTags(results) ==
    { results[i].fix_action : i \in { j \in DOMAIN results : ~results[j].passed } }

\* C35 as stated: every repair that the summary of repair_validation_failures
\* records as SUCCESS has changed the configuration so that the check which
\* asked for it no longer fails when the file is validated again; for
\* generate_secret_key, generate_base64_key and generate_encryption_keys the
\* offending value in the file was replaced.
C35_Claim ==
    [][ last'.op = "repair_validation_failures" =>
          \A i \in DOMAIN last'.summary.repair_details :
             last'.summary.repair_details[i].status = "SUCCESS"
                => last'.summary.repair_details[i].action
                      \notin FailingTags(validate_sysreptor_configuration(cfg', last'.env))
      ]_vars

\* C36 as stated: every fix tag the validator emits is a key of the repair
\* action table and is called with the arguments its repair function takes:
\* no considered failure is left without an attempted repair for want of a
\* table entry, and no repair ends with status ERROR.
C36_Claim ==
    last.op \in {"repair_validation_failures", "run_repair_cycle"} =>
       /\ last.summary.attempted_repairs = last.summary.total_failures
       /\ \A i \in DOMAIN last.summary.repair_details :
             last.summary.repair_details[i].status # "ERROR"

\* the entries of repair_details with a given status
WithStatus(details, status) == SelectSeq(details, LAMBDA d : d.status = status)

\* C37: for every input list the summary of repair_validation_failures has
\* attempted_repairs = successful_repairs + failed_repairs = the number of
\* entries of repair_details, and attempted_repairs <= total_failures <= the
\* number of failing results of the input; a repair that raised is one
\* failed repair (status ERROR), and the results after it are processed: the
\* entries of repair_details are, in order, the considered results whose tag
\* is in the action table.
C37_SummaryCounts ==
    last.op = "repair_results" =>
       LET s       == last.summary
           details == s.repair_details
           tried   == Attempted(last.input)
       IN /\ s.attempted_repairs = s.successful_repairs + s.failed_repairs
          /\ s.attempted_repairs = Len(details)
          /\ s.attempted_repairs <= s.total_failures
          /\ s.total_failures <= Len(FailedResults(last.input))
          /\ s.successful_repairs = Len(WithStatus(details, "SUCCESS"))
          /\ s.failed_repairs = Len(WithStatus(details, "FAILED"))
                                + Len(WithStatus(details, "ERROR"))
          /\ Len(details) = Len(tried)
          /\ \A i \in DOMAIN details : details[i].action = tried[i].fix_action

\* a list of three results: the repair of the first raised, the second has
\* no entry in the action table, the third was repaired
C37_Witness ==
    /\ last.op = "repair_results"
    /\ Len(last.input) = 3
    /\ last.summary.total_failures = 3
    /\ Len(last.summary.repair_details) = 2
    /\ last.summary.repair_details[1].status = "ERROR"
    /\ last.summary.repair_details[2].status = "SUCCESS"
    /\ last.input[2].fix_action \notin RepairActionTable

\* C38: every summary of run_comprehensive_validation has total_checks =
\* passed_checks + failed_checks, auto_fixable_failures <= failed_checks and
\* overall_status PASS exactly when failed_checks = 0; every result that did
\* not pass counts as failed whatever its severity, so a finding of severity
\* warning alone makes the status FAIL and the validator exit with code 1.
C38_SummaryCounts ==
    last.op = "run_comprehensive_validation" =>
       LET s == last.input
       IN /\ s.total_checks = Len(s.validation_results)
          /\ s.total_checks = s.passed_checks + s.failed_checks
          /\ s.failed_checks = Len(FailedResults(s.validation_results))
          /\ s.auto_fixable_failures <= s.failed_checks
          /\ s.overall_status = "PASS" <=> s.failed_checks = 0
          /\ last.count = IF s.failed_checks = 0 THEN 0 ELSE 1

\* a validation whose only failing result is the warning about a short
\* SECRET_KEY: status FAIL, exit code 1
C38_Witness ==
    /\ last.op = "run_comprehensive_validation"
    /\ last.input.failed_checks = 1
    /\ \A i \in DOMAIN last.input.validation_results :
          ~last.input.validation_results[i].passed
             => /\ last.input.validation_results[i].severity = "warning"
                /\ last.input.validation_results[i].fix_action = "generate_secret_key"
    /\ last.input.overall_status = "FAIL"
    /\ last.count = 1

C40_Claim ==
    [][ last'.op = "get_status" =>
          /\ service'.reported.uptime = now' - NewService.last_check_time
          /\ (service.queries > 0 /\ service.running) =>
                service'.reported.uptime >= service.reported.uptime
          /\ service.queries > 0 =>
                service'.reported.healing_actions >= service.reported.healing_actions
          /\ service'.reported.healing_actions = service.restarts ]_vars

====
